---------------------------- MODULE Spec2Model ----------------------------
(***************************************************************************)
(* Optical link budget calculator (LBsim).                                 *)
(*                                                                         *)
(* The model covers the three revisions of the calculation engine          *)
(*   "calc" : backend/calculations.py            (OpticalLinkCalculator)   *)
(*   "main" : backend/main.py                    (inline functions)        *)
(*   "olc"  : optical-link-calculator/backend/calculations.py              *)
(* the two /api/calculate endpoints that drive them, and direct calls of   *)
(* validate_inputs / calculate_link_budget on a parameter dictionary.      *)
(*                                                                         *)
(* Numbers.  Every number of the program is a Python float.  The engine    *)
(* only multiplies, divides and squares quantities on the linear scale     *)
(* (efficiencies, lengths, gains, powers in mW) and only adds, subtracts   *)
(* and compares quantities on the dB scale, and it moves between the two   *)
(* with 10*log10(x) and 10**(x/10).  A linear-scale float is therefore     *)
(* kept as sign and exponent, s * 10^(e/1000), e an integer number of      *)
(* hundredths of a dB, and a dB-scale float as an integer number of        *)
(* hundredths of a dB.  The exponent keeps the range of an IEEE-754        *)
(* double: a result below the smallest subnormal is 0.0, a result above    *)
(* the largest double is inf (product, quotient) or OverflowError (power). *)
(* Rounding of the mantissa is not modelled.                               *)
(***************************************************************************)
EXTENDS Integers, Sequences, FiniteSets, TLC

(***************************************************************************)
(* Python values                                                           *)
(***************************************************************************)
\* a key that is not in the dictionary (not a value: the state of the key)
Absent == [t |-> "absent"]
None == [t |-> "none"]
\* a dB-scale float, v hundredths of a dB
Db(v) == [t |-> "db", v |-> v]
\* a dB-scale float that is +inf (s = 1) or -inf (s = -1)
DbInf(s) == [t |-> "dbinf", s |-> s]
\* a linear-scale float s * 10^(e/1000); s = 0 is 0.0
Lin(s, e) == [t |-> "lin", s |-> s, e |-> e]
LinZero == Lin(0, 0)
NaN == [t |-> "nan"]
Bool(b) == [t |-> "bool", b |-> b]
\* what an arithmetic operator yields on an operand that is None: Python
\* raises TypeError at that operator, the statement reports it
TypeErr == [t |-> "TypeError"]

\* largest finite double, 1.797e308: 10*log10 of it is 3082.54 dB
MaxExp == 308254
\* smallest subnormal double, 4.94e-324: 10*log10 of it is -3233.06 dB
MinExp == -323306
InfExp == MaxExp + 1
LinInf(s) == Lin(s, InfExp)

IsNoneLike(x) == x.t \in {"none", "TypeError", "absent"}
IsLinInf(x) == x.t = "lin" /\ x.s # 0 /\ x.e = InfExp
IsLinZero(x) == x.t = "lin" /\ x.s = 0
IsFinite(x) == \/ x.t = "db"
               \/ x.t = "lin" /\ (x.s = 0 \/ x.e <= MaxExp)

\* the float nearest to s * 10^(e/1000) a product or quotient yields
Norm(s, e) == IF e > MaxExp THEN LinInf(s)
              ELSE IF e < MinExp THEN LinZero
              ELSE Lin(s, e)

(***************************************************************************)
(* Float arithmetic (the operators of the Python expressions)              *)
(***************************************************************************)
\* a * b on the linear scale
FMul(a, b) ==
    IF IsNoneLike(a) \/ IsNoneLike(b) THEN TypeErr
    ELSE IF a.t = "nan" \/ b.t = "nan" THEN NaN
    ELSE IF (IsLinZero(a) /\ IsLinInf(b)) \/ (IsLinInf(a) /\ IsLinZero(b)) THEN NaN
    ELSE IF IsLinZero(a) \/ IsLinZero(b) THEN LinZero
    ELSE IF IsLinInf(a) \/ IsLinInf(b) THEN LinInf(a.s * b.s)
    ELSE Norm(a.s * b.s, a.e + b.e)

\* a / b on the linear scale: the value, or the exception raised
FDiv(a, b) ==
    IF IsNoneLike(a) \/ IsNoneLike(b) THEN [exc |-> "TypeError", val |-> None]
    ELSE IF IsLinZero(b) THEN [exc |-> "ZeroDivisionError", val |-> None]
    ELSE IF a.t = "nan" \/ b.t = "nan" THEN [exc |-> "ok", val |-> NaN]
    ELSE IF IsLinInf(a) /\ IsLinInf(b) THEN [exc |-> "ok", val |-> NaN]
    ELSE IF IsLinZero(a) \/ IsLinInf(b) THEN [exc |-> "ok", val |-> LinZero]
    ELSE IF IsLinInf(a) THEN [exc |-> "ok", val |-> LinInf(a.s * b.s)]
    ELSE [exc |-> "ok", val |-> Norm(a.s * b.s, a.e - b.e)]

\* a ** 2: float_pow raises OverflowError when the result leaves the range,
\* and returns 0.0 when it underflows
FSq(a) ==
    IF IsNoneLike(a) THEN [exc |-> "TypeError", val |-> None]
    ELSE IF a.t = "nan" THEN [exc |-> "ok", val |-> NaN]
    ELSE IF IsLinZero(a) THEN [exc |-> "ok", val |-> LinZero]
    ELSE IF IsLinInf(a) THEN [exc |-> "ok", val |-> LinInf(1)]
    ELSE IF 2 * a.e > MaxExp THEN [exc |-> "OverflowError", val |-> None]
    ELSE IF 2 * a.e < MinExp THEN [exc |-> "ok", val |-> LinZero]
    ELSE [exc |-> "ok", val |-> Lin(1, 2 * a.e)]

\* a + b on the dB scale
FAdd(a, b) ==
    IF IsNoneLike(a) \/ IsNoneLike(b) THEN TypeErr
    ELSE IF a.t = "nan" \/ b.t = "nan" THEN NaN
    ELSE IF a.t = "dbinf" /\ b.t = "dbinf" THEN (IF a.s = b.s THEN a ELSE NaN)
    ELSE IF a.t = "dbinf" THEN a
    ELSE IF b.t = "dbinf" THEN b
    ELSE Db(a.v + b.v)

\* -a on the dB scale
FNeg(a) ==
    IF IsNoneLike(a) THEN TypeErr
    ELSE IF a.t = "nan" THEN NaN
    ELSE IF a.t = "dbinf" THEN DbInf(0 - a.s)
    ELSE Db(0 - a.v)

\* a - b on the dB scale
FSub(a, b) == FAdd(a, FNeg(b))

\* the sign of a float of either scale: -1, 0, 1, and 2 for nan (every
\* comparison with nan is False)
Sign(x) ==
    IF x.t = "nan" THEN 2
    ELSE IF x.t = "lin" \/ x.t = "dbinf" THEN x.s
    ELSE IF x.v > 0 THEN 1 ELSE IF x.v < 0 THEN -1 ELSE 0

\* x <= 0, x < 0, x > 0
FLe0(x) == Sign(x) \in {-1, 0}
FLt0(x) == Sign(x) = -1
FGt0(x) == Sign(x) = 1
\* x > 1 and x <= 1 on the linear scale
FGt1(x) == x.t = "lin" /\ x.s = 1 /\ x.e > 0
FLe1(x) == x.t = "lin" /\ (x.s \in {-1, 0} \/ x.e <= 0)

\* 10 * math.log10(x) for a float that passed the x <= 0 test
Log10x10(x) ==
    IF x.t = "nan" THEN NaN
    ELSE IF IsLinInf(x) THEN DbInf(1)
    ELSE Db(x.e)

\* 10 ** (x / 10): the value, or OverflowError
Pow10(x) ==
    IF IsNoneLike(x) THEN [exc |-> "TypeError", val |-> None]
    ELSE IF x.t = "nan" THEN [exc |-> "ok", val |-> NaN]
    ELSE IF x.t = "dbinf" THEN [exc |-> "ok", val |-> IF x.s = 1 THEN LinInf(1) ELSE LinZero]
    ELSE IF x.v > MaxExp THEN [exc |-> "OverflowError", val |-> None]
    ELSE IF x.v < MinExp THEN [exc |-> "ok", val |-> LinZero]
    ELSE [exc |-> "ok", val |-> Lin(1, x.v)]

\* what a call returns, or the exception it raises
Ret(v) == [exc |-> "ok", val |-> v]
Raise(e) == [exc |-> e, val |-> None]
Ok(r) == r.exc = "ok"

(***************************************************************************)
(* Float literals of the source, as exponents in hundredths of a dB        *)
(***************************************************************************)
\* math.pi = 3.14159...: 10*log10 = 4.9715 dB
PI == 497
\* 2.44: 3.8739 dB
K244 == 387
\* 4: 6.0206 dB
Four == 602
\* 1000: 30 dB
Thousand == 3000
\* 100: 20 dB
Hundred == 2000
\* 1e9: 90 dB
Giga == 9000
\* 180 / pi (math.degrees): 17.5812 dB
DegPerRad == 1758

(***************************************************************************)
(* Unit conversions (the same in the three revisions)                      *)
(***************************************************************************)
linear_to_db(linear_value) ==
    IF IsNoneLike(linear_value) THEN Raise("TypeError")
    ELSE IF FLe0(linear_value) THEN Raise("ValueError")
    ELSE Ret(Log10x10(linear_value))

mw_to_dbm(mw) ==
    IF IsNoneLike(mw) THEN Raise("TypeError")
    ELSE IF FLe0(mw) THEN Raise("ValueError")
    ELSE Ret(Log10x10(mw))

dbm_to_mw(dbm) == Pow10(dbm)

\* Fault injected for C16: the division by 1000 is left out
dbm_to_w_in_milliwatts(dbm) == dbm_to_mw(dbm)

dbm_to_w(dbm) ==
    LET mw == dbm_to_mw(dbm)
    IN  IF Ok(mw) THEN FDiv(mw.val, Lin(1, Thousand)) ELSE mw

w_to_dbm(watts) == mw_to_dbm(FMul(watts, Lin(1, Thousand)))

\* math.degrees(x) = x * (180 / pi)
degrees(x) == FMul(x, Lin(1, DegPerRad))

(***************************************************************************)
(* Formulas shared by the revisions: the arithmetic after the guards       *)
(***************************************************************************)
\* theta = 2.44 * (wavelength_m / diameter_m)
BeamDivergenceFormula(wavelength_m, diameter_m) ==
    LET q == FDiv(wavelength_m, diameter_m)
    IN  IF Ok(q) THEN Ret(FMul(Lin(1, K244), q.val)) ELSE q

\* Fault injected for C23: the ratio upside down, pi * wavelength_m / diameter_m
AntennaGainFormula_ratio_inverted(efficiency, wavelength_m, diameter_m) ==
    LET q  == FDiv(FMul(Lin(1, PI), wavelength_m), diameter_m)
        sq == FSq(q.val)
        gain_abs == FMul(efficiency, sq.val)
        gain_db  == linear_to_db(gain_abs)
    IN  IF ~Ok(q) THEN q
        ELSE IF ~Ok(sq) THEN sq
        ELSE IF ~Ok(gain_db) THEN gain_db
        ELSE Ret([gain_db |-> gain_db.val, gain_abs |-> gain_abs])

\* gain_abs = efficiency * ((pi * diameter_m / wavelength_m) ** 2)
\* gain_db  = linear_to_db(gain_abs);  returns (gain_db, gain_abs)
AntennaGainFormula(efficiency, wavelength_m, diameter_m) ==
    LET q  == FDiv(FMul(Lin(1, PI), diameter_m), wavelength_m)
        sq == FSq(q.val)
        gain_abs == FMul(efficiency, sq.val)
        gain_db  == linear_to_db(gain_abs)
    IN  IF ~Ok(q) THEN q
        ELSE IF ~Ok(sq) THEN sq
        ELSE IF ~Ok(gain_db) THEN gain_db
        ELSE Ret([gain_db |-> gain_db.val, gain_abs |-> gain_abs])

\* Fault injected for C24: (pi * distance_m / wavelength_m) ** 2, the 4 left out
PathLossFormula_without_four(distance_m, wavelength_m) ==
    LET q  == FDiv(FMul(Lin(1, PI), distance_m), wavelength_m)
        sq == FSq(q.val)
    IN  IF ~Ok(q) THEN q
        ELSE IF ~Ok(sq) THEN sq
        ELSE linear_to_db(sq.val)

\* fspl = ((4 * pi * distance_m) / wavelength_m) ** 2;  linear_to_db(fspl)
PathLossFormula(distance_m, wavelength_m) ==
    LET q  == FDiv(FMul(FMul(Lin(1, Four), Lin(1, PI)), distance_m), wavelength_m)
        sq == FSq(q.val)
    IN  IF ~Ok(q) THEN q
        ELSE IF ~Ok(sq) THEN sq
        ELSE linear_to_db(sq.val)

(***************************************************************************)
(* OpticalLinkCalculator (backend/calculations.py; the older revision's    *)
(* formula methods are the same): guards, then the formula                 *)
(***************************************************************************)
calculate_beam_divergence(wavelength_m, diameter_m) ==
    IF IsNoneLike(diameter_m) THEN Raise("TypeError")
    ELSE IF FLe0(diameter_m) THEN Raise("ValueError")
    ELSE BeamDivergenceFormula(wavelength_m, diameter_m)

calculate_antenna_gain(efficiency, wavelength_m, diameter_m) ==
    IF IsNoneLike(efficiency) THEN Raise("TypeError")
    ELSE IF FLe0(efficiency) \/ FGt1(efficiency) THEN Raise("ValueError")
    ELSE IF IsNoneLike(diameter_m) THEN Raise("TypeError")
    ELSE IF FLe0(diameter_m) THEN Raise("ValueError")
    ELSE IF IsNoneLike(wavelength_m) THEN Raise("TypeError")
    ELSE IF FLe0(wavelength_m) THEN Raise("ValueError")
    ELSE AntennaGainFormula(efficiency, wavelength_m, diameter_m)

calculate_free_space_path_loss(distance_m, wavelength_m) ==
    IF IsNoneLike(distance_m) THEN Raise("TypeError")
    ELSE IF FLe0(distance_m) THEN Raise("ValueError")
    ELSE IF IsNoneLike(wavelength_m) THEN Raise("TypeError")
    ELSE IF FLe0(wavelength_m) THEN Raise("ValueError")
    ELSE PathLossFormula(distance_m, wavelength_m)

(***************************************************************************)
(* The inline functions of backend/main.py: the formula without guards     *)
(***************************************************************************)
main_calculate_beam_divergence(wavelength_m, diameter_m) ==
    BeamDivergenceFormula(wavelength_m, diameter_m)

main_calculate_antenna_gain(efficiency, wavelength_m, diameter_m) ==
    AntennaGainFormula(efficiency, wavelength_m, diameter_m)

main_calculate_free_space_path_loss(distance_m, wavelength_m) ==
    PathLossFormula(distance_m, wavelength_m)

(***************************************************************************)
(* Parameter dictionaries                                                  *)
(***************************************************************************)
required_fields ==
    << "tx_power_dbm", "tx_efficiency", "rx_efficiency",
       "wavelength_m", "tx_diameter_m", "rx_diameter_m", "distance_m" >>

RequiredSet == {required_fields[i] : i \in 1..Len(required_fields)}

LossFields ==
    { "implementation_loss_db", "coupling_loss_db",
      "tx_pointing_loss_db", "rx_pointing_loss_db" }

OptionalSet == LossFields \cup {"rx_sensitivity_dbm", "rx_lna_gain_db"}

\* the keys of the revision with pointing-error angles (design section 3)
AngleFields == {"tx_pointing_error_rad", "rx_pointing_error_rad"}

\* the keys a caller sends
Fields == RequiredSet \cup OptionalSet \cup AngleFields

\* field in params
Has(params, field) == params[field].t # "absent"

\* Fault injected for C15: params.get(field), the default left out
Get_without_default(params, field, default) ==
    IF Has(params, field) THEN params[field] ELSE None

\* params.get(field, default)
Get(params, field, default) ==
    IF Has(params, field) THEN params[field] ELSE default

\* "; ".join(errors): the message is kept as the sequence of its entries
Join(errors) == [t |-> "str", parts |-> errors]

(***************************************************************************)
(* validate_inputs                                                         *)
(***************************************************************************)
\* Fault injected for C1: the presence phase stops at the first missing field
MissingErrors_first_only(params) ==
    LET missing == SelectSeq(required_fields, LAMBDA f : ~Has(params, f))
    IN  [i \in 1..(IF missing = << >> THEN 0 ELSE 1) |->
           <<"Missing required field: ", missing[i]>>]

\* for field in required_fields: if field not in params: errors.append(...)
MissingErrors(params) ==
    LET missing == SelectSeq(required_fields, LAMBDA f : ~Has(params, f))
    IN  [i \in 1..Len(missing) |-> <<"Missing required field: ", missing[i]>>]

\* the six range tests on the required fields, in the order of the source
RangeErrors(params) ==
    (IF ~(FGt0(params["tx_efficiency"]) /\ FLe1(params["tx_efficiency"]))
       THEN << <<"TX efficiency must be between 0 and 1", "">> >> ELSE << >>)
    \o
    (IF ~(FGt0(params["rx_efficiency"]) /\ FLe1(params["rx_efficiency"]))
       THEN << <<"RX efficiency must be between 0 and 1", "">> >> ELSE << >>)
    \o
    (IF FLe0(params["wavelength_m"])
       THEN << <<"Wavelength must be positive", "">> >> ELSE << >>)
    \o
    (IF FLe0(params["tx_diameter_m"])
       THEN << <<"TX diameter must be positive", "">> >> ELSE << >>)
    \o
    (IF FLe0(params["rx_diameter_m"])
       THEN << <<"RX diameter must be positive", "">> >> ELSE << >>)
    \o
    (IF FLe0(params["distance_m"])
       THEN << <<"Distance must be positive", "">> >> ELSE << >>)

\* the fields the range tests compare with a number: None there is a TypeError
RangeTested ==
    { "tx_efficiency", "rx_efficiency", "wavelength_m",
      "tx_diameter_m", "rx_diameter_m", "distance_m" }

\* rx_lna_gain_db = params.get('rx_lna_gain_db', 0); if rx_lna_gain_db < 0: ...
LnaErrors(params, text) ==
    IF FLt0(Get(params, "rx_lna_gain_db", Db(0)))
      THEN << <<text, "">> >> ELSE << >>

\* (is_valid, error_message)
Verdict(errors) ==
    IF errors # << >>
      THEN Ret([valid |-> FALSE, message |-> Join(errors)])
      ELSE Ret([valid |-> TRUE, message |-> None])

\* backend/calculations.py
validate_inputs(params) ==
    IF MissingErrors(params) # << >> THEN Verdict(MissingErrors(params))
    ELSE IF \E f \in RangeTested : IsNoneLike(params[f]) THEN Raise("TypeError")
    ELSE IF IsNoneLike(Get(params, "rx_lna_gain_db", Db(0))) THEN Raise("TypeError")
    ELSE Verdict(RangeErrors(params) \o
                 LnaErrors(params, "Rx LNA gain must be 0 or positive (enter 0 if no LNA is used)"))

\* backend/main.py
main_validate_inputs(params) ==
    IF MissingErrors(params) # << >> THEN Verdict(MissingErrors(params))
    ELSE IF \E f \in RangeTested : IsNoneLike(params[f]) THEN Raise("TypeError")
    ELSE IF IsNoneLike(Get(params, "rx_lna_gain_db", Db(0))) THEN Raise("TypeError")
    ELSE Verdict(RangeErrors(params) \o
                 LnaErrors(params, "Rx LNA gain must be 0 or positive"))

\* optical-link-calculator/backend/calculations.py: no LNA test
olc_validate_inputs(params) ==
    IF MissingErrors(params) # << >> THEN Verdict(MissingErrors(params))
    ELSE IF \E f \in RangeTested : IsNoneLike(params[f]) THEN Raise("TypeError")
    ELSE Verdict(RangeErrors(params))

Revisions == {"calc", "main", "olc"}

Validate(rev, params) ==
    CASE rev = "calc" -> validate_inputs(params)
      [] rev = "main" -> main_validate_inputs(params)
      [] rev = "olc"  -> olc_validate_inputs(params)

(***************************************************************************)
(* calculate_link_budget: the statements of the body                       *)
(***************************************************************************)
Beam(rev, wavelength_m, diameter_m) ==
    IF rev = "main" THEN main_calculate_beam_divergence(wavelength_m, diameter_m)
    ELSE calculate_beam_divergence(wavelength_m, diameter_m)

Gain(rev, efficiency, wavelength_m, diameter_m) ==
    IF rev = "main" THEN main_calculate_antenna_gain(efficiency, wavelength_m, diameter_m)
    ELSE calculate_antenna_gain(efficiency, wavelength_m, diameter_m)

PathLoss(rev, distance_m, wavelength_m) ==
    IF rev = "main" THEN main_calculate_free_space_path_loss(distance_m, wavelength_m)
    ELSE calculate_free_space_path_loss(distance_m, wavelength_m)

\* Fault injected for C13: the two pointing-loss keys are read crosswise
ExtractInputs_sides_crossed(params) ==
    [ p_tx_dbm             |-> params["tx_power_dbm"],
      tx_efficiency        |-> params["tx_efficiency"],
      rx_efficiency        |-> params["rx_efficiency"],
      wavelength_m         |-> params["wavelength_m"],
      tx_diameter_m        |-> params["tx_diameter_m"],
      rx_diameter_m        |-> params["rx_diameter_m"],
      distance_m           |-> params["distance_m"],
      impl_loss_db         |-> Get(params, "implementation_loss_db", Db(0)),
      coupling_loss_db     |-> Get(params, "coupling_loss_db", Db(0)),
      tx_pointing_loss_db  |-> Get(params, "rx_pointing_loss_db", Db(0)),
      rx_pointing_loss_db  |-> Get(params, "tx_pointing_loss_db", Db(0)),
      p_rx_sensitivity_dbm |-> Get(params, "rx_sensitivity_dbm", None),
      rx_lna_gain_db       |-> Get(params, "rx_lna_gain_db", Db(0)) ]

\* "Extract inputs": the locals read from params
ExtractInputs(params) ==
    [ p_tx_dbm             |-> params["tx_power_dbm"],
      tx_efficiency        |-> params["tx_efficiency"],
      rx_efficiency        |-> params["rx_efficiency"],
      wavelength_m         |-> params["wavelength_m"],
      tx_diameter_m        |-> params["tx_diameter_m"],
      rx_diameter_m        |-> params["rx_diameter_m"],
      distance_m           |-> params["distance_m"],
      impl_loss_db         |-> Get(params, "implementation_loss_db", Db(0)),
      coupling_loss_db     |-> Get(params, "coupling_loss_db", Db(0)),
      tx_pointing_loss_db  |-> Get(params, "tx_pointing_loss_db", Db(0)),
      rx_pointing_loss_db  |-> Get(params, "rx_pointing_loss_db", Db(0)),
      p_rx_sensitivity_dbm |-> Get(params, "rx_sensitivity_dbm", None),
      rx_lna_gain_db       |-> Get(params, "rx_lna_gain_db", Db(0)) ]

\* Fault injected for C10: the coupling loss is left out of the sum
total_loss_db_without_coupling(L) ==
    FAdd(FAdd(FAdd(L.path_loss_db, L.impl_loss_db), L.tx_pointing_loss_db),
         L.rx_pointing_loss_db)

\* total_loss_db = path_loss_db + impl_loss_db + coupling_loss_db
\*                 + tx_pointing_loss_db + rx_pointing_loss_db
total_loss_db(L) ==
    FAdd(FAdd(FAdd(FAdd(L.path_loss_db, L.impl_loss_db), L.coupling_loss_db),
              L.tx_pointing_loss_db), L.rx_pointing_loss_db)

\* Fault injected for C9: the transmitter efficiency is applied a second time
rcvd_power_dbm_efficiency_twice(L) ==
    FAdd(FSub(FAdd(FAdd(L.p_tx_dbm, L.g_tx_db), L.g_rx_db), L.total_loss_db),
         Log10x10(L.tx_efficiency))

\* rcvd_power_dbm = p_tx_dbm + g_tx_db + g_rx_db - total_loss_db
rcvd_power_dbm(L) ==
    FSub(FAdd(FAdd(L.p_tx_dbm, L.g_tx_db), L.g_rx_db), L.total_loss_db)

\* Fault injected for C5: the amplifier gain is not added
rcvd_power_lna_dbm_without_gain(L) == L.rcvd_power_dbm

\* rcvd_power_lna_dbm = rcvd_power_dbm + rx_lna_gain_db
rcvd_power_lna_dbm(L) == FAdd(L.rcvd_power_dbm, L.rx_lna_gain_db)

\* Fault injected for C6: the margin is taken from the unamplified power
link_margin_db_unamplified(L) ==
    IF L.p_rx_sensitivity_dbm.t # "none"
      THEN FSub(L.rcvd_power_dbm, L.p_rx_sensitivity_dbm)
      ELSE None

\* link_margin_db = None
\* if p_rx_sensitivity_dbm is not None:
\*     link_margin_db = rcvd_power_lna_dbm - p_rx_sensitivity_dbm
link_margin_db(L) ==
    IF L.p_rx_sensitivity_dbm.t # "none"
      THEN FSub(L.rcvd_power_lna_dbm, L.p_rx_sensitivity_dbm)
      ELSE None

\* Fault injected for C28: the difference is taken the other way round
olc_link_margin_db_reversed(L) ==
    IF L.p_rx_sensitivity_dbm.t # "none"
      THEN FSub(L.p_rx_sensitivity_dbm, L.rcvd_power_dbm)
      ELSE None

\* the older revision: link_margin_db = rcvd_power_dbm - p_rx_sensitivity_dbm
olc_link_margin_db(L) ==
    IF L.p_rx_sensitivity_dbm.t # "none"
      THEN FSub(L.rcvd_power_dbm, L.p_rx_sensitivity_dbm)
      ELSE None

\* Fault injected for C7: an absent margin is reported as 0 dB, not viable
link_margin_sentinel(margin_db) ==
    [ margin_db        |-> IF margin_db.t # "none" THEN margin_db ELSE Db(0),
      margin_available |-> Bool(margin_db.t # "none"),
      link_viable      |-> Bool(margin_db.t # "none" /\ FGt0(margin_db)) ]

\* Fault injected for C8: the margin test is not strict
link_margin_not_strict(margin_db) ==
    [ margin_db        |-> margin_db,
      margin_available |-> Bool(margin_db.t # "none"),
      link_viable      |-> IF margin_db.t # "none" THEN Bool(~FLt0(margin_db)) ELSE None ]

\* the 'link_margin' section of the results
link_margin(margin_db) ==
    [ margin_db        |-> margin_db,
      margin_available |-> Bool(margin_db.t # "none"),
      link_viable      |-> IF margin_db.t # "none" THEN Bool(FGt0(margin_db)) ELSE None ]

\* the 'inputs' section (rx_lna_gain_db is echoed by the backend revisions)
inputs_section(rev, L, tx_power_mw) ==
    [ tx_power_dbm          |-> L.p_tx_dbm,
      tx_power_mw           |-> tx_power_mw,
      tx_efficiency_percent |-> FMul(L.tx_efficiency, Lin(1, Hundred)),
      rx_efficiency_percent |-> FMul(L.rx_efficiency, Lin(1, Hundred)),
      wavelength_nm         |-> FMul(L.wavelength_m, Lin(1, Giga)),
      wavelength_m          |-> L.wavelength_m,
      tx_diameter_m         |-> L.tx_diameter_m,
      rx_diameter_m         |-> L.rx_diameter_m,
      distance_m            |-> L.distance_m,
      distance_km           |-> FDiv(L.distance_m, Lin(1, Thousand)).val,
      rx_sensitivity_dbm    |-> L.p_rx_sensitivity_dbm ]
    @@ (IF rev = "olc" THEN << >> ELSE [rx_lna_gain_db |-> L.rx_lna_gain_db])

\* the 'beam_divergence' section (the classes add the mrad keys)
beam_divergence_section(rev, L) ==
    [ tx_theta_rad |-> L.tx_theta,
      tx_theta_deg |-> degrees(L.tx_theta),
      rx_theta_rad |-> L.rx_theta,
      rx_theta_deg |-> degrees(L.rx_theta) ]
    @@ (IF rev = "main" THEN << >>
        ELSE [ tx_theta_mrad |-> FMul(L.tx_theta, Lin(1, Thousand)),
               rx_theta_mrad |-> FMul(L.rx_theta, Lin(1, Thousand)) ])

losses_section(L) ==
    [ path_loss_db           |-> L.path_loss_db,
      implementation_loss_db |-> L.impl_loss_db,
      coupling_loss_db       |-> L.coupling_loss_db,
      tx_pointing_loss_db    |-> L.tx_pointing_loss_db,
      rx_pointing_loss_db    |-> L.rx_pointing_loss_db,
      total_loss_db          |-> L.total_loss_db ]

antenna_gains_section(L) ==
    [ tx_gain_db  |-> L.g_tx_db,
      tx_gain_abs |-> L.g_tx_abs,
      rx_gain_db  |-> L.g_rx_db,
      rx_gain_abs |-> L.g_rx_abs ]

\* {'power_dbm': ..., 'power_mw': dbm_to_mw(...), 'power_w': dbm_to_w(...)}
power_section(dbm, mw, w) ==
    [ power_dbm |-> dbm, power_mw |-> mw, power_w |-> w ]

\* the top-level formula calls calculate_link_budget makes, in order
FormulaCalls ==
    << "calculate_beam_divergence", "calculate_beam_divergence",
       "calculate_antenna_gain", "calculate_antenna_gain",
       "calculate_free_space_path_loss" >>

\* the outcome of calculate_link_budget after n formula calls
Outcome(exc, val, n) ==
    [exc |-> exc, val |-> val, calls |-> SubSeq(FormulaCalls, 1, n)]

(***************************************************************************)
(* calculate_link_budget: the body, statement by statement.  Each group of *)
(* statements takes the outcome so far (the locals, or the exception that  *)
(* ended the call) and yields the outcome after it.                        *)
(***************************************************************************)
\* the five formula calls: beam divergence, antenna gains, path loss
FormulaStatements(rev, In) ==
    LET tx_theta == Beam(rev, In.wavelength_m, In.tx_diameter_m)
        rx_theta == Beam(rev, In.wavelength_m, In.rx_diameter_m)
        g_tx     == Gain(rev, In.tx_efficiency, In.wavelength_m, In.tx_diameter_m)
        g_rx     == Gain(rev, In.rx_efficiency, In.wavelength_m, In.rx_diameter_m)
        path     == PathLoss(rev, In.distance_m, In.wavelength_m)
    IN  IF ~Ok(tx_theta) THEN Outcome(tx_theta.exc, None, 1)
        ELSE IF ~Ok(rx_theta) THEN Outcome(rx_theta.exc, None, 2)
        ELSE IF ~Ok(g_tx) THEN Outcome(g_tx.exc, None, 3)
        ELSE IF ~Ok(g_rx) THEN Outcome(g_rx.exc, None, 4)
        ELSE IF ~Ok(path) THEN Outcome(path.exc, None, 5)
        ELSE Outcome("ok",
                     In @@ [ tx_theta |-> tx_theta.val, rx_theta |-> rx_theta.val,
                             g_tx_db |-> g_tx.val.gain_db, g_tx_abs |-> g_tx.val.gain_abs,
                             g_rx_db |-> g_rx.val.gain_db, g_rx_abs |-> g_rx.val.gain_abs,
                             path_loss_db |-> path.val ],
                     5)

\* total_loss_db = ...
TotalLossStatement(S) ==
    IF ~Ok(S) THEN S
    ELSE LET total == total_loss_db(S.val)
         IN  IF total.t = "TypeError" THEN Outcome("TypeError", None, 5)
             ELSE Outcome("ok", S.val @@ [total_loss_db |-> total], 5)

\* rcvd_power_dbm = ...; rcvd_power_mw = dbm_to_mw(...); rcvd_power_w = dbm_to_w(...)
ReceivedPowerStatements(S) ==
    IF ~Ok(S) THEN S
    ELSE LET dbm == rcvd_power_dbm(S.val)
             mw  == dbm_to_mw(dbm)
             w   == dbm_to_w(dbm)
         IN  IF dbm.t = "TypeError" THEN Outcome("TypeError", None, 5)
             ELSE IF ~Ok(mw) THEN Outcome(mw.exc, None, 5)
             ELSE IF ~Ok(w) THEN Outcome(w.exc, None, 5)
             ELSE Outcome("ok",
                          S.val @@ [ rcvd_power_dbm |-> dbm, rcvd_power_mw |-> mw.val,
                                     rcvd_power_w |-> w.val ],
                          5)

\* rcvd_power_lna_dbm = ...; rcvd_power_lna_mw = ...; rcvd_power_lna_w = ...
\* (the backend revisions; the older revision has no such statements)
LnaStatements(rev, S) ==
    IF ~Ok(S) \/ rev = "olc" THEN S
    ELSE LET dbm == rcvd_power_lna_dbm(S.val)
             mw  == dbm_to_mw(dbm)
             w   == dbm_to_w(dbm)
         IN  IF dbm.t = "TypeError" THEN Outcome("TypeError", None, 5)
             ELSE IF ~Ok(mw) THEN Outcome(mw.exc, None, 5)
             ELSE IF ~Ok(w) THEN Outcome(w.exc, None, 5)
             ELSE Outcome("ok",
                          S.val @@ [ rcvd_power_lna_dbm |-> dbm, rcvd_power_lna_mw |-> mw.val,
                                     rcvd_power_lna_w |-> w.val ],
                          5)

\* link_margin_db = None; if p_rx_sensitivity_dbm is not None: ...
MarginStatement(rev, S) ==
    IF ~Ok(S) THEN S
    ELSE LET margin == IF rev = "olc" THEN olc_link_margin_db(S.val)
                       ELSE link_margin_db(S.val)
         IN  IF margin.t = "TypeError" THEN Outcome("TypeError", None, 5)
             ELSE Outcome("ok", S.val @@ [link_margin_db |-> margin], 5)

\* results = {...}: the sections the three revisions share
common_results(rev, L, tx_power_mw) ==
    [ inputs          |-> inputs_section(rev, L, tx_power_mw),
      antenna_gains   |-> antenna_gains_section(L),
      beam_divergence |-> beam_divergence_section(rev, L),
      losses          |-> losses_section(L),
      received_power  |-> power_section(L.rcvd_power_dbm, L.rcvd_power_mw, L.rcvd_power_w),
      link_margin     |-> link_margin(L.link_margin_db) ]

\* results = {...}; return results
ResultsStatement(rev, S) ==
    IF ~Ok(S) THEN S
    ELSE LET tx_power_mw == dbm_to_mw(S.val.p_tx_dbm)
         IN  IF ~Ok(tx_power_mw) THEN Outcome(tx_power_mw.exc, None, 5)
             ELSE IF rev = "olc"
               THEN Outcome("ok", common_results(rev, S.val, tx_power_mw.val), 5)
             ELSE Outcome("ok",
                          common_results(rev, S.val, tx_power_mw.val) @@
                          [ received_power_with_lna |->
                              power_section(S.val.rcvd_power_lna_dbm,
                                            S.val.rcvd_power_lna_mw,
                                            S.val.rcvd_power_lna_w) ],
                          5)

\* params['tx_power_dbm'] ... raise KeyError on a missing required key
LinkBudget(rev, params) ==
    IF \E f \in RequiredSet : ~Has(params, f) THEN Outcome("KeyError", None, 0)
    ELSE ResultsStatement(rev,
           MarginStatement(rev,
             LnaStatements(rev,
               ReceivedPowerStatements(
                 TotalLossStatement(
                   FormulaStatements(rev, ExtractInputs(params)))))))

\* backend/calculations.py
calculate_link_budget(params) == LinkBudget("calc", params)
\* backend/main.py
main_calculate_link_budget(params) == LinkBudget("main", params)
\* optical-link-calculator/backend/calculations.py
olc_calculate_link_budget(params) == LinkBudget("olc", params)

Calculate(rev, params) ==
    CASE rev = "calc" -> calculate_link_budget(params)
      [] rev = "main" -> main_calculate_link_budget(params)
      [] rev = "olc"  -> olc_calculate_link_budget(params)

(***************************************************************************)
(* The pointing-loss model and the revision of the engine that takes a     *)
(* pointing-error angle per side (design sections 4.3 and 4.6, step 4).    *)
(* The three revisions above have no such input: they drop the two keys.   *)
(***************************************************************************)
\* the capped loss, 1000 dB
CapLossDb == 100000
\* exponent < -700: G * theta^2 > 700 = 10^2.845
ExponentFloor == 2845
\* 1000 * 10^(a/10), 1000 * 10^(b/100), 1000 * 10^(c/1000) for a digit
Tenths == <<1000, 1259, 1585, 1995, 2512, 3162, 3981, 5012, 6310, 7943>>
Hundredths == <<1000, 1023, 1047, 1072, 1096, 1122, 1148, 1175, 1202, 1230>>
Thousandths == <<1000, 1002, 1005, 1007, 1009, 1012, 1014, 1016, 1019, 1021>>

\* 1000 * 10^(r/1000) for 0 <= r < 1000
Mantissa(r) ==
    ((((Tenths[(r \div 100) + 1] * Hundredths[((r % 100) \div 10) + 1]) \div 1000)
        * Thousandths[(r % 10) + 1]) \div 1000)

\* 10^8, ..., 10^2: the divisor 10^(4 - q) for q = -4, ..., 2
Shift == <<100000000, 10000000, 1000000, 100000, 10000, 1000, 100>>

\* 1000 * x * log10(e) for x = 10^(e/1000) < 10^3: the exponent of exp(-x),
\* negated (0 when x is below 1e-4)
ExpDecay(e) ==
    IF e < -4000 THEN 0
    ELSE LET q == e \div 1000
         IN  (4343 * Mantissa(e - 1000 * q)) \div Shift[q + 5]

\* math.exp(-x) for a float x >= 0: it underflows to 0.0
FExpNeg(x) ==
    IF x.t = "nan" THEN NaN
    ELSE IF IsLinZero(x) THEN Lin(1, 0)
    ELSE IF IsLinInf(x) \/ x.e >= 3000 THEN LinZero
    ELSE Norm(1, 0 - ExpDecay(x.e))

\* an angle was given for the key: present, not null, not 0
AngleSupplied(params, field) ==
    Has(params, field) /\ params[field].t = "lin" /\ ~IsLinZero(params[field])

\* Fault injected for C12: neither the exponent test nor the test of the
\* linear loss is made
PointingLossModel_without_cap(gain_abs, theta) ==
    IF theta.t \in {"absent", "none"} \/ IsLinZero(theta) THEN Ret(Db(0))
    ELSE LET sq == FSq(theta)
             x  == FMul(gain_abs, sq.val)
             loss_linear == FExpNeg(x)
             loss_db == linear_to_db(loss_linear)
         IN  IF ~Ok(sq) THEN sq
             ELSE IF x.t = "nan" THEN Ret(NaN)
             ELSE IF ~Ok(loss_db) THEN loss_db
             ELSE Ret(Db(0 - loss_db.val.v))

\* PointingLossModel(G, theta): 0 dB without angle; 1000 dB when
\* -G * theta^2 < -700 or exp(...) <= 0; else |10 * log10(exp(-G * theta^2))|
PointingLossModel(gain_abs, theta) ==
    IF theta.t \in {"absent", "none"} \/ IsLinZero(theta) THEN Ret(Db(0))
    ELSE LET sq == FSq(theta)
             x  == FMul(gain_abs, sq.val)
             loss_linear == FExpNeg(x)
             loss_db == linear_to_db(loss_linear)
         IN  IF ~Ok(sq) THEN sq
             ELSE IF x.t = "nan" THEN Ret(NaN)
             ELSE IF IsLinInf(x) \/ x.e > ExponentFloor THEN Ret(Db(CapLossDb))
             ELSE IF FLe0(loss_linear) THEN Ret(Db(CapLossDb))
             ELSE IF ~Ok(loss_db) THEN loss_db
             ELSE Ret(Db(0 - loss_db.val.v))

\* Fault injected for C11: a fixed pointing loss that is supplied wins
ResolvePointingLoss_fixed_first(params, angle_field, loss_field, gain_abs) ==
    IF AngleSupplied(params, angle_field) /\ ~Has(params, loss_field)
      THEN PointingLossModel(gain_abs, params[angle_field])
      ELSE Ret(Get(params, loss_field, Db(0)))

\* step 4 for one side: the angle, when supplied, decides the loss; otherwise
\* the fixed value in dB does (default 0)
ResolvePointingLoss(params, angle_field, loss_field, gain_abs) ==
    IF AngleSupplied(params, angle_field)
      THEN PointingLossModel(gain_abs, params[angle_field])
      ELSE Ret(Get(params, loss_field, Db(0)))

\* step 4 on the locals: both sides, each from its own angle and gain
PointingStatements(params, S) ==
    IF ~Ok(S) THEN S
    ELSE LET tx == ResolvePointingLoss(params, "tx_pointing_error_rad",
                                       "tx_pointing_loss_db", S.val.g_tx_abs)
             rx == ResolvePointingLoss(params, "rx_pointing_error_rad",
                                       "rx_pointing_loss_db", S.val.g_rx_abs)
         IN  IF ~Ok(tx) THEN Outcome(tx.exc, None, 5)
             ELSE IF ~Ok(rx) THEN Outcome(rx.exc, None, 5)
             ELSE Outcome("ok",
                          [S.val EXCEPT !.tx_pointing_loss_db = tx.val,
                                        !.rx_pointing_loss_db = rx.val],
                          5)

\* the aggregator of the revision with pointing-error angles: steps 1 to 9
pointing_calculate_link_budget(params) ==
    IF \E f \in RequiredSet : ~Has(params, f) THEN Outcome("KeyError", None, 0)
    ELSE ResultsStatement("calc",
           MarginStatement("calc",
             LnaStatements("calc",
               ReceivedPowerStatements(
                 TotalLossStatement(
                   PointingStatements(params,
                     FormulaStatements("calc", ExtractInputs(params))))))))

(***************************************************************************)
(* backend/main.py: the flat view of a result                              *)
(***************************************************************************)
\* Fault injected for C19: the amplified power is read from the section of
\* the unamplified power
flatten_results_lna_from_unamplified(raw) ==
    LET inp == raw.inputs
        ag  == raw.antenna_gains
        bd  == raw.beam_divergence
        ls  == raw.losses
        rp  == raw.received_power
        rpl == raw.received_power_with_lna
        lm  == raw.link_margin
        rx_sens_dbm == inp.rx_sensitivity_dbm
        rx_sens_mw  == IF rx_sens_dbm.t # "none" THEN dbm_to_mw(rx_sens_dbm) ELSE Ret(None)
    IN  IF ~Ok(rx_sens_mw) THEN rx_sens_mw
        ELSE Ret(
          [ tx_power_dbm           |-> inp.tx_power_dbm,
            tx_power_mw            |-> inp.tx_power_mw,
            rx_sensitivity_dbm     |-> rx_sens_dbm,
            rx_sensitivity_mw      |-> rx_sens_mw.val,
            rx_lna_gain_db         |-> inp.rx_lna_gain_db,
            distance_m             |-> inp.distance_m,
            distance_km            |-> inp.distance_km,
            wavelength_nm          |-> inp.wavelength_nm,
            tx_efficiency_percent  |-> inp.tx_efficiency_percent,
            rx_efficiency_percent  |-> inp.rx_efficiency_percent,
            tx_gain_db             |-> ag.tx_gain_db,
            tx_gain_absolute       |-> ag.tx_gain_abs,
            rx_gain_db             |-> ag.rx_gain_db,
            rx_gain_absolute       |-> ag.rx_gain_abs,
            tx_beam_divergence_rad |-> bd.tx_theta_rad,
            tx_beam_divergence_deg |-> bd.tx_theta_deg,
            rx_beam_divergence_rad |-> bd.rx_theta_rad,
            rx_beam_divergence_deg |-> bd.rx_theta_deg,
            path_loss_db           |-> ls.path_loss_db,
            impl_loss_db           |-> ls.implementation_loss_db,
            coupling_loss_db       |-> ls.coupling_loss_db,
            tx_pointing_loss_db    |-> ls.tx_pointing_loss_db,
            rx_pointing_loss_db    |-> ls.rx_pointing_loss_db,
            total_loss_db          |-> ls.total_loss_db,
            received_power_dbm     |-> rp.power_dbm,
            received_power_mw      |-> rp.power_mw,
            received_power_w       |-> rp.power_w,
            received_power_lna_dbm |-> rp.power_dbm,
            received_power_lna_mw  |-> rpl.power_mw,
            received_power_lna_w   |-> rpl.power_w,
            link_margin_db         |-> lm.margin_db,
            link_viable            |-> lm.link_viable ])

\* flatten_results(raw): the flat keys of the HTTP response and the report
flatten_results(raw) ==
    LET inp == raw.inputs
        ag  == raw.antenna_gains
        bd  == raw.beam_divergence
        ls  == raw.losses
        rp  == raw.received_power
        rpl == raw.received_power_with_lna
        lm  == raw.link_margin
        rx_sens_dbm == inp.rx_sensitivity_dbm
        rx_sens_mw  == IF rx_sens_dbm.t # "none" THEN dbm_to_mw(rx_sens_dbm) ELSE Ret(None)
    IN  IF ~Ok(rx_sens_mw) THEN rx_sens_mw
        ELSE Ret(
          [ tx_power_dbm           |-> inp.tx_power_dbm,
            tx_power_mw            |-> inp.tx_power_mw,
            rx_sensitivity_dbm     |-> rx_sens_dbm,
            rx_sensitivity_mw      |-> rx_sens_mw.val,
            rx_lna_gain_db         |-> inp.rx_lna_gain_db,
            distance_m             |-> inp.distance_m,
            distance_km            |-> inp.distance_km,
            wavelength_nm          |-> inp.wavelength_nm,
            tx_efficiency_percent  |-> inp.tx_efficiency_percent,
            rx_efficiency_percent  |-> inp.rx_efficiency_percent,
            tx_gain_db             |-> ag.tx_gain_db,
            tx_gain_absolute       |-> ag.tx_gain_abs,
            rx_gain_db             |-> ag.rx_gain_db,
            rx_gain_absolute       |-> ag.rx_gain_abs,
            tx_beam_divergence_rad |-> bd.tx_theta_rad,
            tx_beam_divergence_deg |-> bd.tx_theta_deg,
            rx_beam_divergence_rad |-> bd.rx_theta_rad,
            rx_beam_divergence_deg |-> bd.rx_theta_deg,
            path_loss_db           |-> ls.path_loss_db,
            impl_loss_db           |-> ls.implementation_loss_db,
            coupling_loss_db       |-> ls.coupling_loss_db,
            tx_pointing_loss_db    |-> ls.tx_pointing_loss_db,
            rx_pointing_loss_db    |-> ls.rx_pointing_loss_db,
            total_loss_db          |-> ls.total_loss_db,
            received_power_dbm     |-> rp.power_dbm,
            received_power_mw      |-> rp.power_mw,
            received_power_w       |-> rp.power_w,
            received_power_lna_dbm |-> rpl.power_dbm,
            received_power_lna_mw  |-> rpl.power_mw,
            received_power_lna_w   |-> rpl.power_w,
            link_margin_db         |-> lm.margin_db,
            link_viable            |-> lm.link_viable ])

(***************************************************************************)
(* The request models (pydantic): LinkBudgetInput, inputs.dict()           *)
(***************************************************************************)
\* Field(..., ge=0): the value, when it is not None, is >= 0
Ge0OrNone(x) == x.t \in {"none", "absent"} \/ Sign(x) \in {0, 1}

\* the keys of the model of an endpoint: the older revision has no LNA field
ModelFields(ep) ==
    IF ep = "olc" THEN (RequiredSet \cup OptionalSet) \ {"rx_lna_gain_db"}
    ELSE RequiredSet \cup OptionalSet

\* the default of an optional field
FieldDefault(field) == IF field = "rx_sensitivity_dbm" THEN None ELSE Db(0)

\* the body passes the field constraints of the model
LinkBudgetInputOK(ep, body) ==
    /\ \A f \in RequiredSet : Has(body, f) /\ body[f].t # "none"
    /\ Sign(body["tx_efficiency"]) \in {0, 1} /\ FLe1(body["tx_efficiency"])
    /\ Sign(body["rx_efficiency"]) \in {0, 1} /\ FLe1(body["rx_efficiency"])
    /\ FGt0(body["tx_diameter_m"])
    /\ FGt0(body["rx_diameter_m"])
    /\ FGt0(body["wavelength_m"])
    /\ FGt0(body["distance_m"])
    /\ \A f \in LossFields : Ge0OrNone(body[f])
    /\ ep = "olc" \/ Ge0OrNone(body["rx_lna_gain_db"])

\* inputs.dict(): every key of the model, defaults for the keys not sent;
\* a key the model does not have is dropped
InputsDict(ep, body) ==
    [ f \in Fields |->
        IF f \notin ModelFields(ep) THEN Absent
        ELSE IF Has(body, f) THEN body[f]
        ELSE FieldDefault(f) ]

LinkBudgetInput(ep, body) ==
    IF LinkBudgetInputOK(ep, body) THEN Ret(InputsDict(ep, body))
    ELSE Raise("RequestValidationError")

\* the engine behind an endpoint
Endpoints == {"backend", "olc"}
EngineOf(ep) == IF ep = "backend" THEN "main" ELSE "olc"

\* except ValueError -> 400; except Exception -> 500.  HTTPException is an
\* Exception and no ValueError.
StatusOfException(exc) == IF exc = "ValueError" THEN 400 ELSE 500

(***************************************************************************)
(* The parameter sets the model submits: the reference scenario with at    *)
(* most MaxEdits of its keys removed or given another value                *)
(***************************************************************************)
MaxEdits == 2

FieldSeq ==
    required_fields \o
    << "implementation_loss_db", "coupling_loss_db", "tx_pointing_loss_db",
       "rx_pointing_loss_db", "rx_sensitivity_dbm", "rx_lna_gain_db",
       "tx_pointing_error_rad", "rx_pointing_error_rad" >>

\* 34 dBm, efficiencies 0.5, 1550 nm, 0.15 m apertures, 40000 km,
\* losses 1 / 4 / 1.5 / 1.5 dB, sensitivity -60 dBm, LNA 20 dB, no angles
Baseline(field) ==
    CASE field = "tx_power_dbm"           -> Db(3400)
      [] field = "tx_efficiency"          -> Lin(1, -301)
      [] field = "rx_efficiency"          -> Lin(1, -301)
      [] field = "wavelength_m"           -> Lin(1, -5810)
      [] field = "tx_diameter_m"          -> Lin(1, -824)
      [] field = "rx_diameter_m"          -> Lin(1, -824)
      [] field = "distance_m"             -> Lin(1, 7602)
      [] field = "implementation_loss_db" -> Db(100)
      [] field = "coupling_loss_db"       -> Db(400)
      [] field = "tx_pointing_loss_db"    -> Db(150)
      [] field = "rx_pointing_loss_db"    -> Db(150)
      [] field = "rx_sensitivity_dbm"     -> Db(-6000)
      [] field = "rx_lna_gain_db"         -> Db(2000)
      [] field \in AngleFields            -> Absent

\* the other states of a key: missing, null (optional keys), and values on
\* and across each boundary the code tests; 4000 dBm and 1e-170 m leave the
\* range of a double in 10 ** (x / 10) and in (...) ** 2; a sensitivity of
\* -30.92 dBm (-50.92 dBm without amplifier) makes the margin exactly 0 dB;
\* angles of 0, 1e-5, 1.26e-4 and 1 rad: G * theta^2 is 4.6, 733 and 4.6e10
\* at the reference gain
Alternatives(field) ==
    CASE field = "tx_power_dbm" -> {Absent, Db(400000)}
      [] field \in {"tx_efficiency", "rx_efficiency"} ->
           {Absent, LinZero, Lin(1, 0), Lin(1, 301), Lin(-1, -301)}
      [] field = "wavelength_m" ->
           {Absent, LinZero, Lin(-1, -5810), Lin(1, -170000)}
      [] field \in {"tx_diameter_m", "rx_diameter_m"} ->
           {Absent, LinZero, Lin(-1, -824), Lin(1, -170000)}
      [] field = "distance_m" -> {Absent, LinZero, Lin(-1, 7602)}
      [] field \in LossFields -> {Absent, None, Db(0), Db(-100)}
      [] field = "rx_sensitivity_dbm" -> {Absent, None, Db(-3092), Db(-5092), Db(0)}
      [] field = "rx_lna_gain_db" -> {Absent, None, Db(0), Db(-500)}
      [] field \in AngleFields -> {LinZero, Lin(1, -5000), Lin(1, -3900), Lin(1, 0)}

RECURSIVE Edited(_, _)
\* the value sequences for the keys FieldSeq[i..] with at most k edits
Edited(i, k) ==
    IF i > Len(FieldSeq) THEN { << >> }
    ELSE { <<Baseline(FieldSeq[i])>> \o rest : rest \in Edited(i + 1, k) }
         \cup
         (IF k = 0 THEN {}
          ELSE { <<v>> \o rest : v \in Alternatives(FieldSeq[i]),
                                 rest \in Edited(i + 1, k - 1) })

FieldPos(field) == CHOOSE i \in 1..Len(FieldSeq) : FieldSeq[i] = field

ParamSets == { [f \in Fields |-> vals[FieldPos(f)]] : vals \in Edited(1, MaxEdits) }

(***************************************************************************)
(* State                                                                   *)
(***************************************************************************)
VARIABLES
    pc,        \* "idle", "handler", "validated", "responded", "returned", "resolved"
    route,     \* "none", "direct" (a caller of the engine), "backend", "olc"
    rev,       \* the engine revision serving the request
    body,      \* the dictionary the caller supplied
    params,    \* the dictionary handed to the engine
    verdict,   \* what validate_inputs returned or raised
    outcome,   \* what calculate_link_budget returned or raised
    flat,      \* what flatten_results returned or raised
    response,  \* the HTTP response: status and detail
    calls,     \* the engine functions invoked for this request, in order
    resolved,  \* what the revision with pointing-error angles returns for params
    calculator, \* the attributes of the shared calculator (module constants)
    heap,      \* the number of dictionaries created so far
    threads,   \* the invocations in progress on the shared calculator
    call,      \* a call of one formula function: its arguments and what it gave
    pdf,       \* what generate_pdf_report made of the response, or raised
    store,     \* the files of STORAGE_DIR: filename to saved data
    now,       \* the clock, in ticks
    reply,     \* the HTTP reply to the last storage or conversion request
    saved,     \* the replies to the successful saves, in order, with what was sent
    deleted    \* the number of successful deletes

\* the state of one request, and the state of concurrent invocations
request_vars == <<pc, route, rev, body, params, verdict, outcome, flat, response,
                  calls, resolved>>
thread_vars == <<calculator, heap, threads>>
api_vars == <<store, now, reply, saved, deleted>>
vars == <<request_vars, thread_vars, call, pdf, api_vars>>

NoResponse == [status |-> 0, detail |-> None]

\* the invocations that may be in progress at once
MaxThreads == 2
Threads == 1..MaxThreads

\* self.c = 3e8
SpeedOfLight == 8477

\* OpticalLinkCalculator(): self.pi = math.pi, self.c = 3e8
OpticalLinkCalculator == [pi |-> Lin(1, PI), c |-> Lin(1, SpeedOfLight)]

\* no formula function called
NoCall == [fn |-> "none"]

\* no storage or conversion request answered
NoReply == [endpoint |-> "none", status |-> 0]

\* an empty STORAGE_DIR at time 0, nothing requested
ApiInit ==
    /\ store = << >>
    /\ now = 0
    /\ reply = NoReply
    /\ saved = << >>
    /\ deleted = 0

\* no call made yet
IdleThread ==
    [ at |-> "idle", given |-> None, params |-> None, dict |-> 0,
      verdict |-> None, locals |-> None, outcome |-> None, dicts |-> << >> ]

Init ==
    /\ pc = "idle"
    /\ route = "none"
    /\ rev = "none"
    /\ body = None
    /\ params = None
    /\ verdict = None
    /\ outcome = None
    /\ flat = None
    /\ response = NoResponse
    /\ calls = << >>
    /\ resolved = None
    /\ calculator = OpticalLinkCalculator
    /\ heap = 0
    /\ threads = [t \in Threads |-> IdleThread]
    /\ call = NoCall
    /\ pdf = None
    /\ ApiInit

(***************************************************************************)
(* A caller of the engine: validate_inputs(params), then, if the caller    *)
(* goes on, calculate_link_budget(params) on the same dictionary           *)
(***************************************************************************)
DirectValidate ==
    /\ pc = "idle"
    /\ \E r \in Revisions, p \in ParamSets :
         /\ pc' = "validated"
         /\ route' = "direct"
         /\ rev' = r
         /\ body' = p
         /\ params' = p
         /\ verdict' = Validate(r, p)
         /\ calls' = <<"validate_inputs">>
    /\ UNCHANGED <<outcome, flat, response, resolved>>
    /\ UNCHANGED <<thread_vars, call, pdf, api_vars>>

DirectCalculate ==
    /\ pc = "validated"
    /\ route = "direct"
    /\ pc' = "returned"
    /\ outcome' = Calculate(rev, params)
    /\ calls' = calls \o <<"calculate_link_budget">> \o outcome'.calls
    /\ UNCHANGED <<route, rev, body, params, verdict, flat, response, resolved>>
    /\ UNCHANGED <<thread_vars, call, pdf, api_vars>>

\* the same call on the revision with pointing-error angles, after its
\* validator has passed (step 1)
PointingCalculate ==
    /\ pc = "returned"
    /\ rev = "calc"
    /\ Ok(verdict) /\ verdict.val.valid
    /\ pc' = "resolved"
    /\ resolved' = pointing_calculate_link_budget(params)
    /\ UNCHANGED <<route, rev, body, params, verdict, outcome, flat, response, calls>>
    /\ UNCHANGED <<thread_vars, call, pdf, api_vars>>

(***************************************************************************)
(* POST /api/calculate                                                     *)
(***************************************************************************)
\* the framework builds LinkBudgetInput from the body: 422 when it fails
Post ==
    /\ pc = "idle"
    /\ \E ep \in Endpoints, b \in ParamSets :
         /\ route' = ep
         /\ rev' = EngineOf(ep)
         /\ body' = b
         /\ LET inputs == LinkBudgetInput(ep, b)
            IN  IF Ok(inputs)
                  THEN /\ pc' = "handler"
                       /\ params' = inputs.val
                       /\ response' = response
                  ELSE /\ pc' = "responded"
                       /\ params' = params
                       /\ response' = [status |-> 422, detail |-> None]
    /\ UNCHANGED <<verdict, outcome, flat, calls, resolved>>
    /\ UNCHANGED <<thread_vars, call, pdf, api_vars>>

\* Fault injected for C3: the handler goes on to the calculation whatever the
\* validator returned
HandlerValidate_no_abort ==
    /\ pc = "handler"
    /\ verdict' = Validate(rev, params)
    /\ calls' = <<"validate_inputs">>
    /\ pc' = "validated"
    /\ UNCHANGED <<route, rev, body, params, outcome, flat, response, resolved>>
    /\ UNCHANGED <<thread_vars, call, pdf, api_vars>>

\* is_valid, error_msg = validate_inputs(params)
\* if not is_valid: raise HTTPException(status_code=400, detail=error_msg)
\* (inside the try: the HTTPException is caught by "except Exception")
HandlerValidate ==
    /\ pc = "handler"
    /\ verdict' = Validate(rev, params)
    /\ calls' = <<"validate_inputs">>
    /\ IF ~Ok(verdict')
         THEN /\ pc' = "responded"
              /\ response' = [status |-> StatusOfException(verdict'.exc),
                              detail |-> None]
         ELSE IF ~verdict'.val.valid
           THEN /\ pc' = "responded"
                /\ response' = [status |-> StatusOfException("HTTPException"),
                                detail |-> verdict'.val.message]
           ELSE /\ pc' = "validated"
                /\ response' = response
    /\ UNCHANGED <<route, rev, body, params, outcome, flat, resolved>>
    /\ UNCHANGED <<thread_vars, call, pdf, api_vars>>

\* raw_results = calculate_link_budget(params)
\* flat_outputs = flatten_results(raw_results)      (backend/main.py only)
\* return {"success": True, ...}
HandlerCalculate ==
    /\ pc = "validated"
    /\ route \in Endpoints
    /\ pc' = "responded"
    /\ outcome' = Calculate(rev, params)
    /\ calls' = calls \o <<"calculate_link_budget">> \o outcome'.calls
    /\ flat' = IF Ok(outcome') /\ route = "backend"
                 THEN flatten_results(outcome'.val) ELSE flat
    /\ response' =
         IF ~Ok(outcome')
           THEN [status |-> StatusOfException(outcome'.exc), detail |-> None]
         ELSE IF route = "backend" /\ ~Ok(flat')
           THEN [status |-> StatusOfException(flat'.exc), detail |-> None]
         ELSE [status |-> 200, detail |-> None]
    /\ UNCHANGED <<route, rev, body, params, verdict, resolved>>
    /\ UNCHANGED <<thread_vars, call, pdf, api_vars>>

(***************************************************************************)
(* POST /api/generate-pdf with the response of /api/calculate              *)
(***************************************************************************)
\* x or 0
OrZero(x) == IF IsNoneLike(x) \/ Sign(x) = 0 THEN Db(0) ELSE x

\* f"{x:.2f}" and the other float formats: None has no such format
Formats(values) ==
    IF \E i \in DOMAIN values : IsNoneLike(values[i]) THEN Raise("TypeError")
    ELSE Ret(values)

\* the cells of the report in the order they are formatted, and the margin
\* display; the report is what doc.build is given
generate_pdf_report(inputs, outputs) ==
    LET lna_gain == OrZero(Get(inputs, "rx_lna_gain_db", outputs.rx_lna_gain_db))
        input_data ==
          Formats(<< Get(inputs, "tx_power_dbm", outputs.tx_power_dbm),
                     outputs.tx_power_mw,
                     Get(inputs, "tx_efficiency", LinZero),
                     Get(inputs, "rx_efficiency", LinZero),
                     Get(inputs, "rx_sensitivity_dbm", outputs.rx_sensitivity_dbm),
                     outputs.rx_sensitivity_mw,
                     lna_gain,
                     Get(inputs, "wavelength_m", LinZero),
                     Get(inputs, "tx_diameter_m", LinZero),
                     Get(inputs, "rx_diameter_m", LinZero),
                     Get(inputs, "distance_m", LinZero),
                     Get(inputs, "implementation_loss_db", Db(0)),
                     Get(inputs, "coupling_loss_db", Db(0)),
                     Get(inputs, "tx_pointing_loss_db", Db(0)),
                     Get(inputs, "rx_pointing_loss_db", Db(0)) >>)
        result_data ==
          Formats(<< outputs.tx_gain_absolute, outputs.tx_gain_db,
                     outputs.rx_gain_absolute, outputs.rx_gain_db,
                     outputs.tx_beam_divergence_rad, outputs.tx_beam_divergence_deg,
                     outputs.rx_beam_divergence_rad, outputs.rx_beam_divergence_deg,
                     outputs.path_loss_db, outputs.impl_loss_db,
                     outputs.coupling_loss_db, outputs.tx_pointing_loss_db,
                     outputs.rx_pointing_loss_db, outputs.total_loss_db >>)
        margin       == OrZero(outputs.link_margin_db)
        lna_gain_val == OrZero(outputs.rx_lna_gain_db)
        status == IF FGt0(margin) THEN "LINK VIABLE" ELSE "LINK NOT VIABLE"
        power_data ==
          Formats(<< outputs.received_power_dbm, outputs.received_power_mw,
                     lna_gain_val,
                     outputs.received_power_lna_dbm, outputs.received_power_lna_mw,
                     outputs.rx_sensitivity_dbm, outputs.rx_sensitivity_mw,
                     outputs.tx_power_dbm, outputs.tx_power_mw,
                     outputs.tx_efficiency_percent, outputs.rx_efficiency_percent >>)
    IN  IF ~Ok(input_data) THEN input_data
        ELSE IF ~Ok(result_data) THEN result_data
        ELSE IF ~Ok(power_data) THEN power_data
        ELSE Ret([margin |-> margin, status |-> status])

\* generate_pdf: the report, or "except Exception" -> 500
GeneratePdf ==
    /\ pc = "responded"
    /\ route = "backend"
    /\ response.status = 200
    /\ pdf = None
    /\ LET report == generate_pdf_report(params, flat.val)
       IN  pdf' = IF Ok(report) THEN [status |-> 200, report |-> report.val]
                  ELSE [status |-> StatusOfException("Exception"), report |-> None]
    /\ UNCHANGED request_vars
    /\ UNCHANGED <<thread_vars, call, api_vars>>

\* the request is over; the engine keeps nothing of it
Finish ==
    /\ pc \in {"responded", "returned", "resolved"} \/ (pc = "validated" /\ route = "direct")
    /\ pc' = "idle"
    /\ route' = "none"
    /\ rev' = "none"
    /\ body' = None
    /\ params' = None
    /\ verdict' = None
    /\ outcome' = None
    /\ flat' = None
    /\ response' = NoResponse
    /\ calls' = << >>
    /\ resolved' = None
    /\ pdf' = None
    /\ UNCHANGED <<thread_vars, call, api_vars>>

Next ==
    \/ DirectValidate
    \/ DirectCalculate
    \/ PointingCalculate
    \/ Post
    \/ HandlerValidate
    \/ HandlerCalculate
    \/ GeneratePdf
    \/ Finish

Spec == Init /\ [][Next]_vars

(***************************************************************************)
(* Concurrent invocations on the one shared calculator.  An invocation is  *)
(* validate_inputs(params) followed, when the verdict is valid, by         *)
(* calculate_link_budget(params); the statements of calculate_link_budget  *)
(* of different invocations interleave.  Each call has its own frame of    *)
(* locals; the calculator carries pi and c.                                *)
(***************************************************************************)
\* the parameter sets of the invocations: the reference scenario, and the
\* scenario with 400 km, with a null coupling loss, with an efficiency of 2
ThreadParams ==
    LET base == [f \in Fields |-> Baseline(f)]
    IN  { base,
          [base EXCEPT !["distance_m"] = Lin(1, 5602)],
          [base EXCEPT !["coupling_loss_db"] = None],
          [base EXCEPT !["tx_efficiency"] = Lin(1, 301)] }

\* the dictionaries of a Result: the outer one and one per section
ResultDicts(r) == <<"results", "inputs", "antenna_gains", "beam_divergence",
                    "losses", "received_power", "link_margin">>
                  \o (IF r = "olc" THEN << >> ELSE <<"received_power_with_lna">>)

\* the identities of the dictionaries a Result built at heap size h is made of
NewDicts(r, h) ==
    [ k \in {ResultDicts(r)[i] : i \in 1..Len(ResultDicts(r))} |->
        h + (CHOOSE i \in 1..Len(ResultDicts(r)) : ResultDicts(r)[i] = k) ]

ThreadInit ==
    /\ pc = "idle"
    /\ route = "none"
    /\ rev \in Revisions
    /\ body = None
    /\ params = None
    /\ verdict = None
    /\ outcome = None
    /\ flat = None
    /\ response = NoResponse
    /\ calls = << >>
    /\ resolved = None
    /\ calculator = OpticalLinkCalculator
    /\ heap = 0
    /\ threads = [t \in Threads |-> IdleThread]
    /\ call = NoCall
    /\ pdf = None
    /\ ApiInit

\* a caller builds a parameter dictionary and calls validate_inputs
ThreadValidate(t) ==
    /\ threads[t].at = "idle"
    /\ \E p \in ThreadParams :
         threads' = [threads EXCEPT ![t] =
                       [@ EXCEPT !.at = "validated", !.given = p, !.params = p,
                                 !.dict = heap + 1,
                                 !.verdict = Validate(rev, p)]]
    /\ heap' = heap + 1
    /\ UNCHANGED <<calculator, request_vars, call, pdf, api_vars>>

\* if not is_valid: the caller stops
ThreadAbort(t) ==
    /\ threads[t].at = "validated"
    /\ ~Ok(threads[t].verdict) \/ ~threads[t].verdict.val.valid
    /\ threads' = [threads EXCEPT ![t].at = "done"]
    /\ UNCHANGED <<calculator, heap, request_vars, call, pdf, api_vars>>

\* calculate_link_budget(params): the inputs are extracted and the five
\* formulas called
ThreadFormulas(t) ==
    /\ threads[t].at = "validated"
    /\ Ok(threads[t].verdict) /\ threads[t].verdict.val.valid
    /\ threads' = [threads EXCEPT
                     ![t].at = "formulas",
                     ![t].locals =
                        FormulaStatements(rev, ExtractInputs(threads[t].params))]
    /\ UNCHANGED <<calculator, heap, request_vars, call, pdf, api_vars>>

ThreadTotalLoss(t) ==
    /\ threads[t].at = "formulas"
    /\ threads' = [threads EXCEPT
                     ![t].at = "total",
                     ![t].locals = TotalLossStatement(threads[t].locals)]
    /\ UNCHANGED <<calculator, heap, request_vars, call, pdf, api_vars>>

ThreadReceivedPower(t) ==
    /\ threads[t].at = "total"
    /\ threads' = [threads EXCEPT
                     ![t].at = "power",
                     ![t].locals =
                        LnaStatements(rev, ReceivedPowerStatements(threads[t].locals))]
    /\ UNCHANGED <<calculator, heap, request_vars, call, pdf, api_vars>>

\* Fault injected for C18: the locals are kept on the shared calculator
\* between two statements (self.locals = ...; ... self.locals)
ThreadMargin_via_calculator(t) ==
    /\ threads[t].at = "power"
    /\ IF "users" \notin DOMAIN calculator \/ t \notin calculator.users
         THEN /\ calculator' =
                   [ pi |-> calculator.pi, c |-> calculator.c,
                     locals |-> threads[t].locals,
                     users |-> IF "users" \in DOMAIN calculator
                                 THEN calculator.users \cup {t} ELSE {t} ]
              /\ UNCHANGED threads
         ELSE /\ threads' = [threads EXCEPT
                               ![t].at = "margin",
                               ![t].locals = MarginStatement(rev, calculator.locals)]
              /\ UNCHANGED calculator
    /\ UNCHANGED <<heap, request_vars, call, pdf, api_vars>>

\* the locals of a call are its own: every statement works on them
ThreadMargin(t) ==
    /\ threads[t].at = "power"
    /\ threads' = [threads EXCEPT
                     ![t].at = "margin",
                     ![t].locals = MarginStatement(rev, threads[t].locals)]
    /\ UNCHANGED <<calculator, heap, request_vars, call, pdf, api_vars>>

\* Fault injected for C17: the Result is kept on the calculator and handed
\* out again to a later call with the same parameters
ThreadResults_memoised(t) ==
    /\ threads[t].at = "margin"
    /\ LET r == ResultsStatement(rev, threads[t].locals)
           known == "last" \in DOMAIN calculator /\ calculator.last.params = threads[t].params
       IN  /\ threads' = [threads EXCEPT
                            ![t].at = "done",
                            ![t].outcome = r,
                            ![t].dicts = IF ~Ok(r) THEN << >>
                                         ELSE IF known THEN calculator.last.dicts
                                         ELSE NewDicts(rev, heap)]
           /\ heap' = IF Ok(r) /\ ~known THEN heap + Len(ResultDicts(rev)) ELSE heap
           /\ calculator' = IF Ok(r) /\ ~known
                              THEN [pi |-> calculator.pi, c |-> calculator.c,
                                    last |-> [params |-> threads[t].params,
                                              dicts |-> NewDicts(rev, heap)]]
                              ELSE calculator
    /\ UNCHANGED <<request_vars, call, pdf, api_vars>>

\* results = { 'inputs': {...}, ... }; return results: the dictionaries are
\* built by this call
ThreadResults(t) ==
    /\ threads[t].at = "margin"
    /\ LET r == ResultsStatement(rev, threads[t].locals)
       IN  /\ threads' = [threads EXCEPT
                            ![t].at = "done",
                            ![t].outcome = r,
                            ![t].dicts = IF Ok(r) THEN NewDicts(rev, heap) ELSE << >>]
           /\ heap' = IF Ok(r) THEN heap + Len(ResultDicts(rev)) ELSE heap
    /\ UNCHANGED <<calculator, request_vars, call, pdf, api_vars>>

ThreadNext ==
    \E t \in Threads :
      \/ ThreadValidate(t)
      \/ ThreadAbort(t)
      \/ ThreadFormulas(t)
      \/ ThreadTotalLoss(t)
      \/ ThreadReceivedPower(t)
      \/ ThreadMargin(t)
      \/ ThreadResults(t)

ThreadSpec == ThreadInit /\ [][ThreadNext]_vars

(***************************************************************************)
(* Calls of the formula functions on their own, with arguments on and      *)
(* across the boundaries of their domains and at the ends of the range of  *)
(* a double                                                                *)
(***************************************************************************)
\* 0, 0.5, 1, 2, -0.5
Efficiencies == {LinZero, Lin(1, -301), Lin(1, 0), Lin(1, 301), Lin(-1, -301)}
\* 0, 1550 nm, -1550 nm, 1e-170 m, 1e170 m
Wavelengths ==
    {LinZero, Lin(1, -5810), Lin(-1, -5810), Lin(1, -170000), Lin(1, 170000)}
\* 0, 0.15 m, -0.15 m, 1e-170 m, 1e170 m
Diameters ==
    {LinZero, Lin(1, -824), Lin(-1, -824), Lin(1, -170000), Lin(1, 170000)}

FormulaInit ==
    /\ pc = "idle"
    /\ route = "none"
    /\ rev = "none"
    /\ body = None
    /\ params = None
    /\ verdict = None
    /\ outcome = None
    /\ flat = None
    /\ response = NoResponse
    /\ calls = << >>
    /\ resolved = None
    /\ calculator = OpticalLinkCalculator
    /\ heap = 0
    /\ threads = [t \in Threads |-> IdleThread]
    /\ call = NoCall
    /\ pdf = None
    /\ ApiInit

\* calculate_antenna_gain(efficiency, wavelength_m, diameter_m)
CallAntennaGain ==
    /\ call = NoCall
    /\ \E r \in Revisions, efficiency \in Efficiencies,
          wavelength_m \in Wavelengths, diameter_m \in Diameters :
         call' = [ fn |-> "calculate_antenna_gain", rev |-> r,
                   args |-> <<efficiency, wavelength_m, diameter_m>>,
                   result |-> Gain(r, efficiency, wavelength_m, diameter_m) ]
    /\ UNCHANGED <<request_vars, thread_vars, pdf, api_vars>>

\* calculate_beam_divergence(wavelength_m, diameter_m)
CallBeamDivergence ==
    /\ call = NoCall
    /\ \E r \in Revisions, wavelength_m \in Wavelengths, diameter_m \in Diameters :
         call' = [ fn |-> "calculate_beam_divergence", rev |-> r,
                   args |-> <<wavelength_m, diameter_m>>,
                   result |-> Beam(r, wavelength_m, diameter_m) ]
    /\ UNCHANGED <<request_vars, thread_vars, pdf, api_vars>>

\* 0, 4e7 m, -4e7 m, 1e170 m
Distances == {LinZero, Lin(1, 7602), Lin(-1, 7602), Lin(1, 170000)}

\* calculate_free_space_path_loss(distance_m, wavelength_m)
CallPathLoss ==
    /\ call = NoCall
    /\ \E r \in Revisions, distance_m \in Distances, wavelength_m \in Wavelengths :
         call' = [ fn |-> "calculate_free_space_path_loss", rev |-> r,
                   args |-> <<distance_m, wavelength_m>>,
                   result |-> PathLoss(r, distance_m, wavelength_m) ]
    /\ UNCHANGED <<request_vars, thread_vars, pdf, api_vars>>

\* positive arguments of two calls that are compared: 0.5 and 1;
\* 1e-170, 1e-160, 1.55e-6, 1e-5 m; 0.15, 1, 1e160, 1e170 m
PositiveEfficiencies == {Lin(1, -301), Lin(1, 0)}
PositiveWavelengths == {Lin(1, -170000), Lin(1, -160000), Lin(1, -5810), Lin(1, -5000)}
PositiveDiameters == {Lin(1, -824), Lin(1, 0), Lin(1, 160000), Lin(1, 170000)}

\* calculate_antenna_gain called twice with the same efficiency
CallAntennaGainTwice ==
    /\ call = NoCall
    /\ \E r \in Revisions, efficiency \in PositiveEfficiencies,
          wavelength_m \in PositiveWavelengths, diameter_m \in PositiveDiameters,
          other_wavelength_m \in PositiveWavelengths,
          other_diameter_m \in PositiveDiameters :
         call' = [ fn |-> "calculate_antenna_gain twice", rev |-> r,
                   args |-> << <<efficiency, wavelength_m, diameter_m>>,
                               <<efficiency, other_wavelength_m, other_diameter_m>> >>,
                   result |-> << Gain(r, efficiency, wavelength_m, diameter_m),
                                 Gain(r, efficiency, other_wavelength_m,
                                      other_diameter_m) >> ]
    /\ UNCHANGED <<request_vars, thread_vars, pdf, api_vars>>

\* 0, 0.5, -1, the smallest and the largest double, 1e300, inf
Powers ==
    {LinZero, Lin(1, -301), Lin(-1, 0), Lin(1, MinExp), Lin(1, MaxExp),
     Lin(1, 300000), LinInf(1)}
\* -4000, -3233.06, -60, 0, 34, 3082.54 and 4000 dBm
Levels ==
    {Db(-400000), Db(MinExp), Db(-6000), Db(0), Db(3400), Db(MaxExp), Db(400000)}

\* the converters from a linear quantity to dB and back, by name
FromLinear == {"linear_to_db", "mw_to_dbm", "w_to_dbm"}
FromDb == {"dbm_to_mw", "dbm_to_w"}
Convert(fn, x) ==
    CASE fn = "linear_to_db" -> linear_to_db(x)
      [] fn = "mw_to_dbm"    -> mw_to_dbm(x)
      [] fn = "w_to_dbm"     -> w_to_dbm(x)
      [] fn = "dbm_to_mw"    -> dbm_to_mw(x)
      [] fn = "dbm_to_w"     -> dbm_to_w(x)

\* linear_to_db(x), mw_to_dbm(mw), w_to_dbm(watts), dbm_to_mw(dbm), dbm_to_w(dbm)
CallConverter ==
    /\ call = NoCall
    /\ \E r \in Revisions, fn \in FromLinear \cup FromDb :
         \E x \in (IF fn \in FromLinear THEN Powers ELSE Levels) :
           call' = [ fn |-> fn, rev |-> r, args |-> <<x>>,
                     result |-> Convert(fn, x) ]
    /\ UNCHANGED <<request_vars, thread_vars, pdf, api_vars>>

\* dbm_to_mw(mw_to_dbm(dbm_to_mw(dbm))): each call on what the one before
\* returned; an exception ends the chain
CallRoundTrip ==
    /\ call = NoCall
    /\ \E r \in Revisions, dbm \in Levels :
         LET mw    == dbm_to_mw(dbm)
             back  == IF Ok(mw) THEN mw_to_dbm(mw.val) ELSE mw
             again == IF Ok(back) THEN dbm_to_mw(back.val) ELSE back
         IN  call' = [ fn |-> "round_trip", rev |-> r, args |-> <<dbm>>,
                       result |-> [mw |-> mw, back |-> back, again |-> again] ]
    /\ UNCHANGED <<request_vars, thread_vars, pdf, api_vars>>

\* the caller has the result; the next call
CallReturn ==
    /\ call # NoCall
    /\ call' = NoCall
    /\ UNCHANGED <<request_vars, thread_vars, pdf, api_vars>>

FormulaNext ==
    \/ CallAntennaGain
    \/ CallBeamDivergence
    \/ CallPathLoss
    \/ CallAntennaGainTwice
    \/ CallConverter
    \/ CallRoundTrip
    \/ CallReturn

FormulaSpec == FormulaInit /\ [][FormulaNext]_vars

(***************************************************************************)
(* The storage and conversion endpoints.  Both applications have the same  *)
(* /api/save, /api/saved, /api/load and /api/delete handlers; they are     *)
(* coroutines without an await, so each runs from request to reply without *)
(* another handler in between.  /api/convert/power is in the older         *)
(* application only.  A string is the sequence of its characters.          *)
(***************************************************************************)
\* the saves and the clock ticks of one behaviour
MaxSaves == 2
MaxClock == 3

\* strftime("%Y%m%d_%H%M%S") has the resolution of a second, isoformat() of a
\* microsecond: the clock ticks more than once in a second
TicksPerSecond == 2

\* raise HTTPException(status_code=..., detail=...)
HTTPException(status_code) ==
    [exc |-> "HTTPException", val |-> None, status_code |-> status_code]

\* except ValueError: 400;  except Exception: 500, which an HTTPException
\* raised inside the try block is as well
Caught(result) ==
    IF result.exc = "ValueError" THEN 400 ELSE 500

\* c.isalnum() or c in (' ', '-', '_')
AlphaNumeric == {"a", "1"}
IsSafe(c) == c \in AlphaNumeric \cup {" ", "-", "_"}

\* str.strip(): the white space at both ends removed
RECURSIVE strip(_)
strip(chars) ==
    IF chars = << >> THEN chars
    ELSE IF Head(chars) = " " THEN strip(Tail(chars))
    ELSE IF chars[Len(chars)] = " " THEN strip(SubSeq(chars, 1, Len(chars) - 1))
    ELSE chars

\* "".join(c for c in calculation_name if ...).strip().replace(' ', '_')
safe_name(calculation_name) ==
    LET kept     == SelectSeq(calculation_name, IsSafe)
        stripped == strip(kept)
    IN  [i \in 1..Len(stripped) |-> IF stripped[i] = " " THEN "_" ELSE stripped[i]]

\* f"{safe_name}_{timestamp}.json": the time stamp has a fixed width, so
\* the name and the second determine the file name and the reverse
Filename(name, second) == [name |-> name, stamp |-> second]

\* the names, payloads (inputs, results and notes) and file names requested:
\* "a 1" and " a_1!"
Names == { <<"a", " ", "1">>, <<" ", "a", "_", "1", "!">> }
Payloads == {"first", "second"}
Filenames ==
    { Filename(safe_name(n), t) : n \in Names, t \in 0..(MaxClock \div TicksPerSecond) }

\* open(filepath, 'w'); json.dump(save_data, f): the file is created or replaced
Written(files, filename, data) ==
    [f \in DOMAIN files \cup {filename} |-> IF f = filename THEN data ELSE files[f]]
\* os.remove(filepath)
Removed(files, filename) ==
    [f \in DOMAIN files \ {filename} |-> files[f]]

\* time passes between two requests
Tick ==
    /\ now < MaxClock
    /\ now' = now + 1
    /\ UNCHANGED <<store, reply, saved, deleted>>
    /\ UNCHANGED <<request_vars, thread_vars, call, pdf>>

\* POST /api/save
save_calculation ==
    /\ Len(saved) < MaxSaves
    /\ \E calculation_name \in Names, payload \in Payloads :
         LET timestamp == now \div TicksPerSecond
             filename  == Filename(safe_name(calculation_name), timestamp)
             save_data == [ name |-> calculation_name, timestamp |-> now,
                            payload |-> payload ]
         IN  /\ store' = Written(store, filename, save_data)
             /\ reply' = [endpoint |-> "save", status |-> 200, body |-> filename]
             /\ saved' = Append(saved, [filename |-> filename, data |-> save_data])
    /\ UNCHANGED <<now, deleted>>
    /\ UNCHANGED <<request_vars, thread_vars, call, pdf>>

\* GET /api/saved: every file of the directory, newest first; files with
\* the same time stamp in the order os.listdir gave them
list_saved_calculations ==
    /\ \E order \in [1..Cardinality(DOMAIN store) -> DOMAIN store] :
         /\ \A i, j \in DOMAIN order : i # j => order[i] # order[j]
         /\ \A i, j \in DOMAIN order :
              i < j => store[order[i]].timestamp >= store[order[j]].timestamp
         /\ reply' = [ endpoint |-> "saved", status |-> 200,
                       body |-> [count |-> Len(order), calculations |-> order] ]
    /\ UNCHANGED <<store, now, saved, deleted>>
    /\ UNCHANGED <<request_vars, thread_vars, call, pdf>>

\* GET /api/load/{filename}
load_calculation ==
    /\ \E filename \in Filenames :
         LET result == IF filename \notin DOMAIN store
                         THEN HTTPException(404)
                         ELSE Ret(store[filename])
         IN  reply' = IF Ok(result)
                        THEN [endpoint |-> "load", status |-> 200, body |-> result.val]
                        ELSE [endpoint |-> "load", status |-> Caught(result),
                              body |-> filename]
    /\ UNCHANGED <<store, now, saved, deleted>>
    /\ UNCHANGED <<request_vars, thread_vars, call, pdf>>

\* DELETE /api/delete/{filename}
delete_calculation ==
    /\ \E filename \in Filenames :
         LET result == IF filename \notin DOMAIN store
                         THEN HTTPException(404)
                         ELSE Ret(None)
         IN  /\ store' = IF Ok(result) THEN Removed(store, filename) ELSE store
             /\ deleted' = IF Ok(result) THEN deleted + 1 ELSE deleted
             /\ reply' = [ endpoint |-> "delete",
                           status |-> IF Ok(result) THEN 200 ELSE Caught(result),
                           body |-> filename ]
    /\ UNCHANGED <<now, saved>>
    /\ UNCHANGED <<request_vars, thread_vars, call, pdf>>

\* the units a request names ("kw" is none the handler knows) and its values
Units == {"dbm", "mw", "w", "kw"}
Values(from_unit) ==
    IF from_unit = "dbm" THEN {Db(3400)} ELSE {Lin(1, 0), LinZero}

\* the try block of convert_power: to dBm, then to the target unit
convert(value, from_unit, to_unit) ==
    LET dbm == CASE from_unit = "dbm" -> Ret(value)
                 [] from_unit = "mw"  -> mw_to_dbm(value)
                 [] from_unit = "w"   -> w_to_dbm(value)
                 [] OTHER             -> HTTPException(400)
    IN  IF ~Ok(dbm) THEN dbm
        ELSE CASE to_unit = "dbm" -> dbm
               [] to_unit = "mw"  -> dbm_to_mw(dbm.val)
               [] to_unit = "w"   -> dbm_to_w(dbm.val)
               [] OTHER           -> HTTPException(400)

\* POST /api/convert/power
convert_power ==
    /\ \E from_unit \in Units, to_unit \in Units :
         \E value \in Values(from_unit) :
           LET result == convert(value, from_unit, to_unit)
           IN  reply' = [ endpoint |-> "convert",
                          status |-> IF Ok(result) THEN 200 ELSE Caught(result),
                          body |-> [from_unit |-> from_unit, to_unit |-> to_unit,
                                    value |-> value] ]
    /\ UNCHANGED <<store, now, saved, deleted>>
    /\ UNCHANGED <<request_vars, thread_vars, call, pdf>>

ApiInitial ==
    /\ pc = "idle"
    /\ route = "none"
    /\ rev = "none"
    /\ body = None
    /\ params = None
    /\ verdict = None
    /\ outcome = None
    /\ flat = None
    /\ response = NoResponse
    /\ calls = << >>
    /\ resolved = None
    /\ calculator = OpticalLinkCalculator
    /\ heap = 0
    /\ threads = [t \in Threads |-> IdleThread]
    /\ call = NoCall
    /\ pdf = None
    /\ ApiInit

ApiNext ==
    \/ Tick
    \/ save_calculation
    \/ list_saved_calculations
    \/ load_calculation
    \/ delete_calculation
    \/ convert_power

ApiSpec == ApiInitial /\ [][ApiNext]_vars

(***************************************************************************)
(* Properties                                                              *)
(***************************************************************************)
\* validate_inputs returned (it did not raise), and what it returned
Returned == verdict # None /\ Ok(verdict)
Accepted == Returned /\ verdict.val.valid
Rejected == Returned /\ ~verdict.val.valid
\* the entries of the message validate_inputs returned
Entries == verdict.val.message.parts

\* calculate_link_budget was called, and it returned a Result
Calculated == outcome # None
HasResult == Calculated /\ Ok(outcome)
\* a Result for a parameter set that validate_inputs accepts
ValidResult == Accepted /\ HasResult
Result == outcome.val

\* the revisions of backend/: the class and the inline engine
BackendRevisions == {"calc", "main"}

Missing(p) == {f \in RequiredSet : ~Has(p, f)}
\* rx_sensitivity_dbm is supplied: the key is there and its value is a number
SensitivitySupplied(p) == p["rx_sensitivity_dbm"].t \notin {"absent", "none"}
\* rx_lna_gain_db, 0 when the key is absent
LnaGain(p) == IF p["rx_lna_gain_db"].t = "absent" THEN Db(0) ELSE p["rx_lna_gain_db"]

\* the constraints of the range phase a parameter set violates, each named
\* by the message of its test
InUnitInterval(x) == x.t = "lin" /\ x.s = 1 /\ x.e <= 0
Positive(x) == x.t = "lin" /\ x.s = 1
NonNegativeDb(x) == x.t = "db" /\ x.v >= 0
LnaMessage(r) ==
    IF r = "calc" THEN "Rx LNA gain must be 0 or positive (enter 0 if no LNA is used)"
    ELSE "Rx LNA gain must be 0 or positive"
Violations(r, p) ==
    (IF InUnitInterval(p["tx_efficiency"]) THEN {} ELSE {"TX efficiency must be between 0 and 1"})
    \cup (IF InUnitInterval(p["rx_efficiency"]) THEN {} ELSE {"RX efficiency must be between 0 and 1"})
    \cup (IF Positive(p["wavelength_m"]) THEN {} ELSE {"Wavelength must be positive"})
    \cup (IF Positive(p["tx_diameter_m"]) THEN {} ELSE {"TX diameter must be positive"})
    \cup (IF Positive(p["rx_diameter_m"]) THEN {} ELSE {"RX diameter must be positive"})
    \cup (IF Positive(p["distance_m"]) THEN {} ELSE {"Distance must be positive"})
    \cup (IF NonNegativeDb(LnaGain(p)) THEN {} ELSE {LnaMessage(r)})

\* C1: when a required field is missing, validate_inputs returns
\* (False, message); the message has one entry for every missing required
\* field and no other entry (no range message), whatever the other values.
C1_PresenceShortCircuit ==
    (verdict # None /\ Missing(params) # {}) =>
        /\ Rejected
        /\ Len(Entries) = Cardinality(Missing(params))
        /\ \A i \in 1..Len(Entries) : Entries[i][1] = "Missing required field: "
        /\ {Entries[i][2] : i \in 1..Len(Entries)} = Missing(params)

\* C1 witness: distance_m missing and tx_efficiency = 2.0: the message is the
\* single entry for distance_m
C1_Witness ==
    /\ verdict # None
    /\ rev = "calc"
    /\ Missing(params) = {"distance_m"}
    /\ params["tx_efficiency"] = Lin(1, 301)
    /\ Rejected
    /\ Entries = << <<"Missing required field: ", "distance_m">> >>

\* C2 (as stated): when the seven required fields are present,
\* validate_inputs of the backend revisions returns; the verdict is True with
\* no message iff no constraint of the range phase is violated, and a False
\* verdict carries exactly one entry per violated constraint and no other.
C2_RangePhaseCollectsAll ==
    (verdict # None /\ rev \in BackendRevisions /\ Missing(params) = {}) =>
        /\ Returned
        /\ verdict.val.valid <=> Violations(rev, params) = {}
        /\ verdict.val.valid => verdict.val.message = None
        /\ ~verdict.val.valid =>
             /\ Len(Entries) = Cardinality(Violations(rev, params))
             /\ {Entries[i][1] : i \in 1..Len(Entries)} = Violations(rev, params)

\* C3: in the request flow of either endpoint validate_inputs is the first
\* engine call, and once it has rejected the input (or raised)
\* calculate_link_budget and the formulas are never called for the request,
\* no Result and no flat view exist, and the response is no success.
C3_ValidationPrecedesFormulas ==
    route \in Endpoints =>
        /\ calls # << >> => calls[1] = "validate_inputs"
        /\ Calculated => Accepted
        /\ (verdict # None /\ ~Accepted) =>
             /\ calls = <<"validate_inputs">>
             /\ outcome = None
             /\ flat = None
             /\ pc = "responded"
             /\ response.status \notin {0, 200}

\* C3 witness: the endpoint of backend/main.py answered a body the validator
\* rejected (an efficiency of 0 passes the request model)
C3_Witness ==
    /\ route = "backend"
    /\ pc = "responded"
    /\ Rejected
    /\ params["tx_efficiency"] = LinZero
    /\ calls = <<"validate_inputs">>
    /\ outcome = None

\* C4 (as stated): for every parameter set validate_inputs accepts, none of
\* calculate_beam_divergence, calculate_antenna_gain,
\* calculate_free_space_path_loss and linear_to_db raises its out-of-domain
\* error (ValueError) in calculate_link_budget.  (The claim also says that
\* the call returns a Result, which this is necessary for.)
C4_NoDomainErrorAfterValidation ==
    (Accepted /\ Calculated) => outcome.exc # "ValueError"

\* C5: for every valid input the Result of the backend revisions has
\* received_power_with_lna.power_dbm = received_power.power_dbm +
\* rx_lna_gain_db, with rx_lna_gain_db = 0 when the key is absent.
C5_LnaAdditivity ==
    (ValidResult /\ rev \in BackendRevisions) =>
        /\ Result.received_power_with_lna.power_dbm =
             FAdd(Result.received_power.power_dbm, LnaGain(params))
        /\ ~Has(params, "rx_lna_gain_db") =>
             Result.received_power_with_lna.power_dbm = Result.received_power.power_dbm

\* C5 witness: the reference scenario, 20 dB of gain: -50.92 dBm becomes
\* -30.92 dBm
C5_Witness ==
    /\ ValidResult
    /\ rev \in BackendRevisions
    /\ params["rx_lna_gain_db"] = Db(2000)
    /\ Result.received_power.power_dbm = Db(-5092)
    /\ Result.received_power_with_lna.power_dbm = Db(-3092)

\* C6: whenever rx_sensitivity_dbm is supplied, the margin of the backend
\* revisions is received_power_with_lna.power_dbm - rx_sensitivity_dbm, which
\* is received_power.power_dbm + rx_lna_gain_db - rx_sensitivity_dbm.
C6_MarginFromAmplifiedPower ==
    (HasResult /\ rev \in BackendRevisions /\ SensitivitySupplied(params)) =>
        /\ Result.link_margin.margin_db =
             FSub(Result.received_power_with_lna.power_dbm, params["rx_sensitivity_dbm"])
        /\ Result.link_margin.margin_db =
             FSub(FAdd(Result.received_power.power_dbm, LnaGain(params)),
                  params["rx_sensitivity_dbm"])

\* C6 witness: the reference scenario: -30.92 dBm against -60 dBm is a margin
\* of 29.08 dB (the unamplified power would give 9.08 dB)
C6_Witness ==
    /\ ValidResult
    /\ rev \in BackendRevisions
    /\ params["rx_sensitivity_dbm"] = Db(-6000)
    /\ params["rx_lna_gain_db"] = Db(2000)
    /\ Result.received_power.power_dbm = Db(-5092)
    /\ Result.link_margin.margin_db = Db(2908)

\* C7: margin_db and link_viable are non-null and margin_available is true
\* when rx_sensitivity_dbm is supplied; they are null and margin_available is
\* false when it is not; the flat view carries the same margin_db and
\* link_viable (and a null rx_sensitivity_mw when there is no sensitivity).
C7_MarginFieldsIffSensitivity ==
    /\ HasResult =>
         IF SensitivitySupplied(params)
           THEN /\ Result.link_margin.margin_db.t \in {"db", "dbinf", "nan"}
                /\ Result.link_margin.link_viable.t = "bool"
                /\ Result.link_margin.margin_available = Bool(TRUE)
           ELSE /\ Result.link_margin.margin_db = None
                /\ Result.link_margin.link_viable = None
                /\ Result.link_margin.margin_available = Bool(FALSE)
    /\ (flat # None /\ Ok(flat)) =>
         IF SensitivitySupplied(params)
           THEN /\ flat.val.link_margin_db.t \in {"db", "dbinf", "nan"}
                /\ flat.val.link_viable.t = "bool"
                /\ flat.val.rx_sensitivity_mw.t = "lin"
           ELSE /\ flat.val.link_margin_db = None
                /\ flat.val.link_viable = None
                /\ flat.val.rx_sensitivity_mw = None
                /\ flat.val.rx_sensitivity_dbm = None

\* C7 witness: a request without sensitivity answered by backend/main.py:
\* null margin fields in the Result and in the flat view
C7_Witness ==
    /\ route = "backend"
    /\ HasResult
    /\ flat # None
    /\ Ok(flat)
    /\ ~SensitivitySupplied(params)
    /\ Result.link_margin.margin_available = Bool(FALSE)
    /\ flat.val.link_margin_db = None

\* C8: whenever rx_sensitivity_dbm is supplied, link_viable is true exactly
\* when margin_db > 0: a margin of 0 dB or below is not viable (the three
\* revisions).
C8_MarginSign ==
    (HasResult /\ SensitivitySupplied(params)) =>
        /\ Result.link_margin.margin_db.t = "db"
        /\ Result.link_margin.link_viable = Bool(Result.link_margin.margin_db.v > 0)

\* C8 witness: a sensitivity equal to the amplified received power: the
\* margin is exactly 0 dB and the link is not viable
C8_Witness ==
    /\ ValidResult
    /\ rev = "calc"
    /\ params["rx_sensitivity_dbm"] = Db(-3092)
    /\ Result.link_margin.margin_db = Db(0)
    /\ Result.link_margin.link_viable = Bool(FALSE)

\* C9: for every valid input received_power.power_dbm = tx_power_dbm +
\* tx_gain_db + rx_gain_db - total_loss_db, all read from the Result, and
\* each gain is 10*log10(efficiency * (pi * D / wavelength)^2): the
\* efficiency of a side enters once, through its gain.
C9_ReceivedPower ==
    ValidResult =>
        /\ Result.received_power.power_dbm =
             FSub(FAdd(FAdd(Result.inputs.tx_power_dbm, Result.antenna_gains.tx_gain_db),
                       Result.antenna_gains.rx_gain_db),
                  Result.losses.total_loss_db)
        /\ Result.inputs.tx_power_dbm = params["tx_power_dbm"]
        /\ Result.antenna_gains.tx_gain_db =
             Db(params["tx_efficiency"].e
                + 2 * (PI + params["tx_diameter_m"].e - params["wavelength_m"].e))
        /\ Result.antenna_gains.rx_gain_db =
             Db(params["rx_efficiency"].e
                + 2 * (PI + params["rx_diameter_m"].e - params["wavelength_m"].e))

\* C9 witness: the reference scenario: 34 + 106.65 + 106.65 - 298.22 = -50.92
C9_Witness ==
    /\ ValidResult
    /\ params["tx_power_dbm"] = Db(3400)
    /\ Result.antenna_gains.tx_gain_db = Db(10665)
    /\ Result.antenna_gains.rx_gain_db = Db(10665)
    /\ Result.losses.total_loss_db = Db(29822)
    /\ Result.received_power.power_dbm = Db(-5092)

\* C10: for every valid input losses.total_loss_db is the sum of the five
\* other values of the losses section, and the four fixed losses there are
\* the supplied ones (0 when absent).
C10_TotalLoss ==
    ValidResult =>
        /\ Result.losses.total_loss_db =
             FAdd(FAdd(FAdd(FAdd(Result.losses.path_loss_db,
                                 Result.losses.implementation_loss_db),
                            Result.losses.coupling_loss_db),
                       Result.losses.tx_pointing_loss_db),
                  Result.losses.rx_pointing_loss_db)
        /\ Result.losses.total_loss_db.t = "db"
        /\ \A f \in LossFields : Result.losses[f] = Get(params, f, Db(0))

\* C10 witness: the reference scenario: 290.22 + 1 + 4 + 1.5 + 1.5 = 298.22
C10_Witness ==
    /\ ValidResult
    /\ Result.losses.path_loss_db = Db(29022)
    /\ Result.losses.implementation_loss_db = Db(100)
    /\ Result.losses.coupling_loss_db = Db(400)
    /\ Result.losses.tx_pointing_loss_db = Db(150)
    /\ Result.losses.rx_pointing_loss_db = Db(150)
    /\ Result.losses.total_loss_db = Db(29822)

(***************************************************************************)
(* C11 - C12: pointing-error angles                                        *)
(***************************************************************************)
\* the two sides: the angle key, the fixed-loss key, its gain in the Result
PointingSides ==
    { [ angle |-> "tx_pointing_error_rad", loss |-> "tx_pointing_loss_db",
        gain |-> "tx_gain_abs" ],
      [ angle |-> "rx_pointing_error_rad", loss |-> "rx_pointing_loss_db",
        gain |-> "rx_gain_abs" ] }

\* the revision with pointing-error angles returned a Result
Resolved == pc = "resolved" /\ Ok(resolved)

\* G * theta^2 > 700 for the side, G being the gain the engine computed
Steep(sd) ==
    /\ AngleSupplied(params, sd.angle)
    /\ LET x == FMul(outcome.val.antenna_gains[sd.gain], FSq(params[sd.angle]).val)
       IN  IsLinInf(x) \/ (x.s = 1 /\ x.e > ExponentFloor)

\* C11: in every Result of the revision that takes pointing-error angles, a
\* side whose angle is supplied has as its pointing loss the value of the
\* pointing-loss model at that side's absolute gain and that angle, whatever
\* fixed loss was supplied for it; a side without angle has its fixed loss
\* (0 dB by default), the one the other revisions report; and the total loss
\* is the sum taken with these two values.
C11_AngleOverridesFixedLoss ==
    Resolved =>
      /\ \A sd \in PointingSides :
           IF AngleSupplied(params, sd.angle)
             THEN resolved.val.losses[sd.loss] =
                    PointingLossModel(resolved.val.antenna_gains[sd.gain],
                                      params[sd.angle]).val
             ELSE /\ resolved.val.losses[sd.loss] = Get(params, sd.loss, Db(0))
                  /\ Ok(outcome) =>
                       resolved.val.losses[sd.loss] = outcome.val.losses[sd.loss]
      /\ resolved.val.losses.total_loss_db =
           FAdd(FAdd(FAdd(FAdd(resolved.val.losses.path_loss_db,
                               resolved.val.losses.implementation_loss_db),
                          resolved.val.losses.coupling_loss_db),
                     resolved.val.losses.tx_pointing_loss_db),
                resolved.val.losses.rx_pointing_loss_db)

\* an angle of 1e-5 rad on the transmit side only, with the fixed losses of
\* 1.5 dB supplied for both sides: 20.08 dB for the transmitter, 1.5 dB for
\* the receiver
C11_Witness ==
    /\ Resolved
    /\ params["tx_pointing_error_rad"] = Lin(1, -5000)
    /\ ~AngleSupplied(params, "rx_pointing_error_rad")
    /\ params["tx_pointing_loss_db"] = Db(150)
    /\ params["rx_pointing_loss_db"] = Db(150)
    /\ resolved.val.losses.tx_pointing_loss_db = Db(2008)
    /\ resolved.val.losses.rx_pointing_loss_db = Db(150)
    /\ resolved.val.losses.total_loss_db = Db(29022 + 100 + 400 + 2008 + 150)

\* C12: when the engines compute a Result for a parameter set in which a
\* side has a non-zero angle with -G * theta^2 < -700, the revision that
\* takes the angle returns a Result too (no logarithm domain error), and the
\* pointing loss of that side is exactly 1000 dB, a finite value.
C12_UnderflowCap ==
    (pc = "resolved" /\ Ok(outcome)) =>
      \A sd \in PointingSides :
        Steep(sd) =>
          /\ Ok(resolved)
          /\ resolved.val.losses[sd.loss] = Db(CapLossDb)
          /\ resolved.val.losses.total_loss_db.t = "db"

\* 1 rad at the receiver (G * theta^2 = 4.6e10, exp underflows to 0.0) and
\* 1.26e-4 rad (G * theta^2 = 733, exp does not underflow)
C12_Witness ==
    /\ Resolved
    /\ Ok(outcome)
    /\ params["rx_pointing_error_rad"] = Lin(1, 0)
    /\ params["tx_pointing_error_rad"] = Lin(1, -3900)
    /\ Steep(CHOOSE sd \in PointingSides : sd.angle = "rx_pointing_error_rad")
    /\ Steep(CHOOSE sd \in PointingSides : sd.angle = "tx_pointing_error_rad")
    /\ resolved.val.losses.rx_pointing_loss_db = Db(100000)
    /\ resolved.val.losses.tx_pointing_loss_db = Db(100000)

(***************************************************************************)
(* C13: the fixed pointing loss                                            *)
(***************************************************************************)
\* the fixed pointing loss of a side as the caller gave it: 0 dB when absent
FixedLoss(p, sd) == Get(p, sd.loss, Db(0))

\* C13: in every Result of the three revisions, a side for which no
\* pointing-error angle is supplied reports as its pointing loss the fixed
\* value supplied for it (0 dB when the key is absent), and the total loss
\* is the path loss, the implementation and coupling losses and these two
\* fixed values added up.
C13_FixedLossFallback ==
    HasResult =>
      /\ \A sd \in PointingSides :
           ~AngleSupplied(params, sd.angle) =>
             Result.losses[sd.loss] = FixedLoss(params, sd)
      /\ (\A sd \in PointingSides : ~AngleSupplied(params, sd.angle)) =>
           Result.losses.total_loss_db =
             FAdd(FAdd(FAdd(FAdd(Result.losses.path_loss_db,
                                 Result.losses.implementation_loss_db),
                            Result.losses.coupling_loss_db),
                       Get(params, "tx_pointing_loss_db", Db(0))),
                  Get(params, "rx_pointing_loss_db", Db(0)))

\* no angle, no fixed loss for the transmitter, 1.5 dB for the receiver:
\* 0 dB and 1.5 dB, total 290.22 + 1 + 4 + 0 + 1.5
C13_Witness ==
    /\ HasResult
    /\ \A f \in AngleFields : ~Has(params, f)
    /\ ~Has(params, "tx_pointing_loss_db")
    /\ params["rx_pointing_loss_db"] = Db(150)
    /\ Result.losses.tx_pointing_loss_db = Db(0)
    /\ Result.losses.rx_pointing_loss_db = Db(150)
    /\ Result.losses.total_loss_db = Db(29022 + 100 + 400 + 0 + 150)

(***************************************************************************)
(* C14: explicit losses are not negative                                   *)
(***************************************************************************)
\* a key of the parameter set carries a negative number
Negative(p, field) == Has(p, field) /\ p[field].t = "db" /\ p[field].v < 0

\* C14: a parameter set with a negative implementation, coupling or pointing
\* loss is rejected by validate_inputs, and every Result computed for an
\* accepted parameter set has its four explicit losses and the amplifier
\* gain at or above 0 dB, hence a total loss not below the path loss.
C14_NonNegativeLosses ==
    /\ (Returned /\ \E f \in LossFields : Negative(params, f)) => Rejected
    /\ (Accepted /\ HasResult) =>
         /\ \A f \in LossFields : Sign(Result.losses[f]) \in {0, 1}
         /\ Sign(Get(params, "rx_lna_gain_db", Db(0))) \in {0, 1}
         /\ Sign(FSub(Result.losses.total_loss_db, Result.losses.path_loss_db)) \in {0, 1}

(***************************************************************************)
(* C15: absent optional keys                                               *)
(***************************************************************************)
\* the optional keys whose default is 0
ZeroDefaultFields == LossFields \cup {"rx_lna_gain_db"}

\* the parameter set with 0 supplied for each of these keys that is absent
Zeroed(p) ==
    [ f \in DOMAIN p |->
        IF f \in ZeroDefaultFields /\ ~Has(p, f) THEN Db(0) ELSE p[f] ]

\* C15: validate_inputs and calculate_link_budget give for a parameter set
\* that omits some of the four loss keys or rx_lna_gain_db what they give
\* for the same set with 0 supplied for the omitted keys: the same verdict
\* or exception, the same Result or exception; the request model maps both
\* bodies to the same dictionary.
C15_AbsentEqualsZero ==
    /\ verdict # None => verdict = Validate(rev, Zeroed(params))
    /\ Calculated => outcome = Calculate(rev, Zeroed(params))
    /\ (route \in Endpoints) =>
         LinkBudgetInput(route, Zeroed(body)) = LinkBudgetInput(route, body)

\* the coupling loss and the amplifier gain omitted: a Result with 0 dB for
\* both, the one the set with the two zeros supplied gets
C15_Witness ==
    /\ HasResult
    /\ Accepted
    /\ ~Has(params, "coupling_loss_db")
    /\ ~Has(params, "rx_lna_gain_db")
    /\ Zeroed(params) # params
    /\ Result.losses.coupling_loss_db = Db(0)
    /\ Result.received_power_with_lna.power_dbm = Result.received_power.power_dbm
    /\ Validate(rev, Zeroed(params)) = verdict
    /\ Calculate(rev, Zeroed(params)) = outcome

(***************************************************************************)
(* C16: the power fields                                                   *)
(***************************************************************************)
\* the power sections of a Result (the older revision has only the first)
PowerSections(r) == {"received_power", "received_power_with_lna"} \cap DOMAIN r

\* C16: in every Result, each power section has power_mw = 10^(power_dbm/10)
\* and power_w = power_mw / 1000.
C16_DerivedPowerConsistent ==
    HasResult =>
      \A sec \in PowerSections(Result) :
        /\ Result[sec].power_mw = Pow10(Result[sec].power_dbm).val
        /\ Result[sec].power_w = FDiv(Result[sec].power_mw, Lin(1, 3000)).val

\* the reference scenario: -50.92 dBm is 10^-5.092 mW and 10^-8.092 W,
\* -30.92 dBm with the amplifier is 10^-3.092 mW and 10^-6.092 W
C16_Witness ==
    /\ HasResult
    /\ PowerSections(Result) = {"received_power", "received_power_with_lna"}
    /\ Result.received_power = power_section(Db(-5092), Lin(1, -5092), Lin(1, -8092))
    /\ Result.received_power_with_lna =
         power_section(Db(-3092), Lin(1, -3092), Lin(1, -6092))

(***************************************************************************)
(* C17 - C18: purity and re-entrancy                                       *)
(***************************************************************************)
\* the invocation returned from validate_inputs / from calculate_link_budget
Started(t) == threads[t].at # "idle"
Done(t) == threads[t].at = "done"
Built(t) == Done(t) /\ threads[t].outcome # None /\ Ok(threads[t].outcome)
\* the identities of the dictionaries of the Result of an invocation
DictsOf(t) == {threads[t].dicts[k] : k \in DOMAIN threads[t].dicts}

\* C17: at every point of every interleaving the calculator has the
\* attributes pi and c it was constructed with and no other; the dictionary
\* a caller passed holds what the caller put in it; and the dictionaries a
\* returned Result is made of are distinct from one another, from every
\* parameter dictionary and from the dictionaries of every other Result.
C17_Purity ==
    /\ calculator = OpticalLinkCalculator
    /\ \A t \in Threads : Started(t) => threads[t].params = threads[t].given
    /\ \A t \in Threads :
         Built(t) =>
           /\ Cardinality(DictsOf(t)) = Len(ResultDicts(rev))
           /\ \A u \in Threads : threads[u].dict \notin DictsOf(t)
           /\ \A u \in Threads \ {t} : DictsOf(u) \cap DictsOf(t) = {}

\* two calls with the same parameter set, one after the other: two Results
\* with equal contents, built from different dictionaries
C17_Witness ==
    /\ Built(1) /\ Built(2)
    /\ threads[1].given = threads[2].given
    /\ threads[1].outcome = threads[2].outcome
    /\ threads[1].dict # threads[2].dict
    /\ DictsOf(1) # {} /\ DictsOf(2) # {}
    /\ DictsOf(1) \cap DictsOf(2) = {}
    /\ threads[1].dicts["results"] < threads[2].dict

\* C18: under every interleaving of the invocations, each one gets from
\* validate_inputs the verdict and from calculate_link_budget the Result or
\* exception that the call gives when it runs alone on its parameter set;
\* invocations with equal parameter sets get equal verdicts and Results.
C18_Reentrancy ==
    /\ \A t \in Threads :
         /\ Started(t) => threads[t].verdict = Validate(rev, threads[t].given)
         /\ (Done(t) /\ threads[t].outcome # None) =>
              threads[t].outcome = Calculate(rev, threads[t].given)
    /\ \A t, u \in Threads :
         (Done(t) /\ Done(u) /\ threads[t].given = threads[u].given) =>
           /\ threads[t].verdict = threads[u].verdict
           /\ threads[t].outcome = threads[u].outcome

\* two overlapping calls with different parameter sets: the first caller
\* started first and got its Result last; each Result is the one of its
\* own parameter set (path loss 290.22 dB at 40000 km, 250.22 dB at 400 km)
C18_Witness ==
    /\ Built(1) /\ Built(2)
    /\ threads[1].given # threads[2].given
    /\ threads[1].dict < threads[2].dict
    /\ threads[2].dict < threads[2].dicts["results"]
    /\ threads[2].dicts["results"] < threads[1].dicts["results"]
    /\ threads[1].outcome.val.losses.path_loss_db = Db(29022)
    /\ threads[2].outcome.val.losses.path_loss_db = Db(25022)
    /\ threads[1].outcome = Calculate(rev, threads[1].given)
    /\ threads[2].outcome = Calculate(rev, threads[2].given)

(***************************************************************************)
(* C19: the flat view                                                      *)
(***************************************************************************)
\* flatten_results returned a flat view of the Result of this request
Flattened == pc = "responded" /\ route = "backend" /\ flat # None /\ Ok(flat)

\* the six sections as they are read back from a flat view
Unflatten(f) ==
    [ antenna_gains |->
        [ tx_gain_db |-> f.tx_gain_db, tx_gain_abs |-> f.tx_gain_absolute,
          rx_gain_db |-> f.rx_gain_db, rx_gain_abs |-> f.rx_gain_absolute ],
      beam_divergence |->
        [ tx_theta_rad |-> f.tx_beam_divergence_rad,
          tx_theta_deg |-> f.tx_beam_divergence_deg,
          rx_theta_rad |-> f.rx_beam_divergence_rad,
          rx_theta_deg |-> f.rx_beam_divergence_deg ],
      losses |->
        [ path_loss_db           |-> f.path_loss_db,
          implementation_loss_db |-> f.impl_loss_db,
          coupling_loss_db       |-> f.coupling_loss_db,
          tx_pointing_loss_db    |-> f.tx_pointing_loss_db,
          rx_pointing_loss_db    |-> f.rx_pointing_loss_db,
          total_loss_db          |-> f.total_loss_db ],
      received_power |->
        [ power_dbm |-> f.received_power_dbm, power_mw |-> f.received_power_mw,
          power_w |-> f.received_power_w ],
      received_power_with_lna |->
        [ power_dbm |-> f.received_power_lna_dbm,
          power_mw |-> f.received_power_lna_mw,
          power_w |-> f.received_power_lna_w ],
      link_margin |->
        [ margin_db        |-> f.link_margin_db,
          margin_available |-> Bool(f.link_margin_db.t # "none"),
          link_viable      |-> f.link_viable ] ]

\* C19: whenever flatten_results returned, the sections antenna_gains,
\* beam_divergence, losses, received_power, received_power_with_lna and
\* link_margin read back from the flat view, each flat key taken as the
\* nested field it names, are the sections of the Result, field for field;
\* and the Result is the one calculate_link_budget returned.
C19_FlattenLossless ==
    Flattened =>
      /\ \A sec \in DOMAIN Unflatten(flat.val) :
           Unflatten(flat.val)[sec] = Result[sec]
      /\ outcome = Calculate(rev, params)

\* the reference scenario through POST /api/calculate
C19_Witness ==
    /\ Flattened
    /\ response.status = 200
    /\ flat.val.total_loss_db = Db(29822)
    /\ flat.val.received_power_dbm = Db(-5092)
    /\ flat.val.received_power_lna_dbm = Db(-3092)
    /\ flat.val.link_margin_db = Db(2908)
    /\ flat.val.link_viable = Bool(TRUE)
    /\ Result.link_margin.margin_available = Bool(TRUE)

(***************************************************************************)
(* C20: the domain of calculate_antenna_gain                               *)
(***************************************************************************)
\* calculate_antenna_gain was called
GainCalled == call.fn = "calculate_antenna_gain"

\* C20: a call of calculate_antenna_gain with an efficiency outside (0, 1],
\* a diameter <= 0 or a wavelength <= 0 raises; every other call returns
\* (gain_db, gain_abs) with gain_abs = efficiency * (pi * D / wavelength)^2
\* and gain_db = 10 * log10(gain_abs).
C20_AntennaGainDomain ==
    GainCalled =>
      LET efficiency   == call.args[1]
          wavelength_m == call.args[2]
          diameter_m   == call.args[3]
      IN  IF \/ FLe0(efficiency) \/ FGt1(efficiency)
             \/ FLe0(diameter_m)
             \/ FLe0(wavelength_m)
            THEN ~Ok(call.result)
            ELSE /\ Ok(call.result)
                 /\ call.result.val.gain_abs =
                      FMul(efficiency,
                           FSq(FDiv(FMul(Lin(1, PI), diameter_m), wavelength_m).val).val)
                 /\ call.result.val.gain_db = Log10x10(call.result.val.gain_abs)

(***************************************************************************)
(* C21 - C22: the unit converters                                          *)
(***************************************************************************)
\* C21: linear_to_db, mw_to_dbm and w_to_dbm raise exactly when their
\* argument is <= 0 and return a value for every positive argument;
\* dbm_to_mw and dbm_to_w return a value for every argument.
C21_ConverterDomains ==
    /\ call.fn \in FromLinear => (~Ok(call.result) <=> FLe0(call.args[1]))
    /\ call.fn \in FromDb => Ok(call.result)

\* C22: for every dbm, dbm_to_mw(dbm) and mw_to_dbm of it return, and
\* dbm_to_mw of that level is the power dbm_to_mw(dbm) again.
C22_RoundTrip ==
    call.fn = "round_trip" =>
      /\ Ok(call.result.mw)
      /\ Ok(call.result.back)
      /\ Ok(call.result.again)
      /\ call.result.again.val = call.result.mw.val

(***************************************************************************)
(* C23: antenna gain against diameter and wavelength                       *)
(***************************************************************************)
\* two calls of calculate_antenna_gain have both returned
GainTwice ==
    /\ call.fn = "calculate_antenna_gain twice"
    /\ Ok(call.result[1])
    /\ Ok(call.result[2])
FirstGain == call.result[1].val.gain_abs
SecondGain == call.result[2].val.gain_abs
\* the second call has the larger diameter and the same wavelength
LargerDiameter ==
    /\ call.args[1][2] = call.args[2][2]
    /\ call.args[1][3].e < call.args[2][3].e
\* the second call has the longer wavelength and the same diameter
LongerWavelength ==
    /\ call.args[1][3] = call.args[2][3]
    /\ call.args[1][2].e < call.args[2][2].e
\* positive floats in order
Less(a, b) == a.e < b.e

ReferenceScenario == [f \in Fields |-> Baseline(f)]
\* a level within 0.1 dB of c hundredths of a dB
Near(x, c) == x.t = "db" /\ x.v - c \in -10..10

\* C24: for the reference scenario validate_inputs answers valid and
\* calculate_link_budget of backend/ returns gains of 106.6 dB, a path loss
\* of 290.2 dB, a total loss of 298.2 dB, -50.9 dBm received, -30.9 dBm
\* after the amplifier, a margin of +29.1 dB and link_viable true, each
\* within 0.1 dB.
C24_ReferenceScenario ==
    (body = ReferenceScenario /\ rev \in BackendRevisions) =>
      /\ verdict # None => Accepted
      /\ Calculated =>
           /\ HasResult
           /\ Near(Result.antenna_gains.tx_gain_db, 10660)
           /\ Near(Result.antenna_gains.rx_gain_db, 10660)
           /\ Near(Result.losses.path_loss_db, 29020)
           /\ Near(Result.losses.total_loss_db, 29820)
           /\ Near(Result.received_power.power_dbm, -5090)
           /\ Near(Result.received_power_with_lna.power_dbm, -3090)
           /\ Near(Result.link_margin.margin_db, 2910)
           /\ Result.link_margin.link_viable = Bool(TRUE)

\* the class engine has returned the budget of the reference scenario
C24_Witness ==
    /\ body = ReferenceScenario
    /\ rev = "calc"
    /\ Accepted
    /\ HasResult
    /\ Near(Result.link_margin.margin_db, 2910)

(***************************************************************************)
(* C25: the status of a deliberate HTTPException                           *)
(***************************************************************************)
KnownUnits == {"dbm", "mw", "w"}
\* the request named a unit the handler does not know, and nothing else
\* was wrong with it before the handler came to that unit
UnknownUnit ==
    /\ reply.endpoint = "convert"
    /\ \/ reply.body.from_unit \notin KnownUnits
       \/ /\ reply.body.to_unit \notin KnownUnits
          /\ Ok(convert(reply.body.value, reply.body.from_unit, "dbm"))

\* C25: a deliberate HTTPException keeps its status: /api/calculate answers
\* 400 when validate_inputs rejects the input, /api/load and /api/delete
\* answer 404 for a file that is not there, and /api/convert/power answers
\* 400 for an unknown unit.
C25_DeliberateStatusKept ==
    /\ (route \in Endpoints /\ pc = "responded" /\ Rejected) => response.status = 400
    /\ (reply.endpoint \in {"load", "delete"} /\ reply.status # 200) => reply.status = 404
    /\ UnknownUnit => reply.status = 400

(***************************************************************************)
(* C30: saves and the files they leave                                     *)
(***************************************************************************)
\* C30: saves never overwrite each other: while nothing has been deleted,
\* n successful saves leave n distinct files, /api/saved lists n
\* calculations, and the file each save named holds the data of that save.
C30_SavesKeptApart ==
    deleted = 0 =>
      /\ Cardinality(DOMAIN store) = Len(saved)
      /\ \A i, j \in DOMAIN saved : i # j => saved[i].filename # saved[j].filename
      /\ \A i \in DOMAIN saved :
           /\ saved[i].filename \in DOMAIN store
           /\ store[saved[i].filename] = saved[i].data
      /\ reply.endpoint = "saved" => reply.body.count = Len(saved)

(***************************************************************************)
(* C26: null optional fields                                               *)
(***************************************************************************)
\* the body has an optional field with the value null
NullOptional == body # None /\ \E f \in OptionalSet \ {"rx_sensitivity_dbm"} : body[f] = None

\* C26: a body the request model accepts is handled without an internal
\* error: with an optional field null, validate_inputs returns its pair
\* and, when it accepts, calculate_link_budget returns a Result.
C26_NullOptionalHandled ==
    (route = "backend" /\ NullOptional) =>
      /\ verdict # None => Ok(verdict)
      /\ Calculated => HasResult
      /\ pc = "responded" => response.status # 500

(***************************************************************************)
(* C27: the inline engine of backend/main.py against the class             *)
(***************************************************************************)
\* the other engine of backend/
Counterpart(r) == IF r = "calc" THEN "main" ELSE "calc"
\* both raise, or both return and the values are the same
Agree(a, b) == (Ok(a) <=> Ok(b)) /\ (Ok(a) => a.val = b.val)
\* both raise, or both return and every field of every section that both
\* results have is the same
AgreeOnShared(a, b) ==
    /\ Ok(a) <=> Ok(b)
    /\ Ok(a) => \A k \in DOMAIN a.val \cap DOMAIN b.val :
                  \A f \in DOMAIN a.val[k] \cap DOMAIN b.val[k] :
                    a.val[k][f] = b.val[k][f]
\* both raise, or both return the same valid flag
SameVerdict(a, b) == (Ok(a) <=> Ok(b)) /\ (Ok(a) => a.val.valid = b.val.valid)
\* what the formula function of the call gives in revision r
Formula(r) ==
    CASE call.fn = "calculate_beam_divergence" ->
           Beam(r, call.args[1], call.args[2])
      [] call.fn = "calculate_antenna_gain" ->
           Gain(r, call.args[1], call.args[2], call.args[3])
      [] call.fn = "calculate_free_space_path_loss" ->
           PathLoss(r, call.args[1], call.args[2])
FormulaFunctions ==
    {"calculate_beam_divergence", "calculate_antenna_gain",
     "calculate_free_space_path_loss"}

\* C27: the inline engine of backend/main.py and the class of
\* backend/calculations.py give the same verdict for every parameter set,
\* and calculate_link_budget and the three formula functions raise in
\* both or return the same values.
C27_InlineRefinesClass ==
    /\ (rev \in BackendRevisions /\ verdict # None) =>
         SameVerdict(verdict, Validate(Counterpart(rev), params))
    /\ (rev \in BackendRevisions /\ Calculated) =>
         AgreeOnShared(outcome, Calculate(Counterpart(rev), params))
    /\ (call.fn \in FormulaFunctions /\ call.rev \in BackendRevisions) =>
         Agree(call.result, Formula(Counterpart(call.rev)))

(***************************************************************************)
(* C28: the older revision against the class of backend/                   *)
(***************************************************************************)
ClassRevisions == {"calc", "olc"}
\* the same call on the other class
Other == IF rev = "calc" THEN "olc" ELSE "calc"
\* calculate_link_budget of backend/ and of the older revision for params:
\* one of them is the call of this request
Newer == IF rev = "calc" THEN outcome ELSE Calculate("calc", params)
Older == IF rev = "olc" THEN outcome ELSE Calculate("olc", params)
\* rx_lna_gain_db is absent or 0; it is a positive number
LnaOff == params # None /\ params["rx_lna_gain_db"] \in {Absent, Db(0)}
LnaOn == /\ params # None
         /\ params["rx_lna_gain_db"].t = "db"
         /\ params["rx_lna_gain_db"].v > 0
SharedSections == {"antenna_gains", "losses", "received_power", "link_margin"}
\* both revisions return a margin
BothMargins ==
    /\ Calculated
    /\ Ok(Newer)
    /\ Ok(Older)
    /\ Older.val.link_margin.margin_available = Bool(TRUE)

C28_WitnessOff ==
    /\ rev = "calc"
    /\ LnaOff
    /\ BothMargins

(***************************************************************************)
(* C29: the report of a calculation                                        *)
(***************************************************************************)
\* /api/generate-pdf was asked for the report of this calculation
Reported == pdf # None
\* the calculation had no rx_sensitivity_dbm
NoSensitivity == flat # None /\ Ok(flat) /\ flat.val.rx_sensitivity_dbm = None

\* C29: /api/generate-pdf builds the report of every response of
\* /api/calculate without raising, and a calculation without a sensitivity
\* is not reported as LINK NOT VIABLE with a margin of 0.00 dB.
C29_ReportOfEveryCalculation ==
    Reported =>
      /\ pdf.status = 200
      /\ NoSensitivity =>
           ~(pdf.report.status = "LINK NOT VIABLE" /\ pdf.report.margin = Db(0))

=============================================================================
